---- MODULE Spec2Model ----
(***************************************************************************)
(* Turn engine, combat, status effects, enemy policies, visibility, the   *)
(* autoplay planner and the dungeon generator of the dungeon crawler      *)
(* (src/game.py), with the two front ends that drive it: the console loop *)
(* Game.run (src/game.py) and the GUI GuiApp.on_key / GuiApp._auto_tick   *)
(* (src/renderer_gui.py).                                                 *)
(*                                                                         *)
(* Cells are pairs <<x, y>>.  Entities are records; entity reference 0 is *)
(* the player, reference i >= 1 is enemies[i].  An effects mapping is a   *)
(* function from the names of the stored effects to [dur, val], where val *)
(* is the effect's parameter (Shield: temp, Frenzy/Hex: atk, Aim: mul in  *)
(* tenths, AimCD: unused).                                                *)
(***************************************************************************)
EXTENDS Integers, Sequences, FiniteSets, TLC

VARIABLES
    ui,          \* which front end runs the game: "console" (Game.run) or "gui" (GuiApp)
    seed,        \* Game.seed: fixes the dungeon and the placement new_game produces
    menu_tier,   \* Game.menu_tier
    state,       \* Game.state: menu, playing, paused, game_over, victory
    turn,        \* Game.turn
    map,         \* Game.map: [w, h, tiles, explored, gen_type, rooms, room_centers, doors]
    player,      \* Game.player
    enemies,     \* Game.enemies (list order is turn order)
    items,       \* Game.items
    inventory,   \* Game.inventory: [potion, key]
    exit,        \* (Game.exit_x, Game.exit_y) or NoExit
    visible,     \* Game.visible, as the set of visible cells
    auto_play,   \* Game.auto_play
    gen,         \* position and locals of a running Map.generate / new_game placement
    last,        \* history: what the last command did (see NoLast)
    won,         \* history: _on_victory ran since the last new_game
    run_items_used, \* Game.run_items_used
    aimed,       \* history: the enemies whose most recent turn started an Aim
    loop,        \* console: where Game.run stands, "outer" or "auto" (its inner autoplay loop)
    rng,         \* Game.rng where a specification follows the generator: its seed and
                 \* the number of draws taken since it was seeded
    twin,        \* a second run of the program, where a specification compares two runs
    disk,        \* the save file
    hot,         \* live reload: the patch loader's module state, the watcher thread,
                 \* the reloadable tables and where the Tk main loop stands
    tk           \* the Tk timer queue, GuiApp's autoplay and series fields

vars == <<ui, seed, menu_tier, state, turn, map, player, enemies, items, inventory,
          exit, visible, auto_play, gen, last, won, run_items_used, aimed, loop,
          rng, twin, disk, hot, tk>>

\* The specifications that take the rng draws as arbitrary, run one game, touch
\* no save file or start no watcher leave these variables as they begin.
NoRng == [seed |-> 0, n |-> 0]

NoTwin == [on |-> FALSE]

\* kind: "missing", "unparsable", "notdict" (JSON that is no object) or
\* "parsed"; data: the dictionary parsed; saves and loads: how often the file
\* was written and read (history).
NoDisk == [kind |-> "missing", data |-> <<>>, saves |-> 0, loads |-> 0]

NoHot == [pc |-> "off"]

NoTk == [on |-> FALSE]

EnvInit == rng = NoRng /\ twin = NoTwin /\ disk = NoDisk /\ hot = NoHot /\ tk = NoTk

EnvUnchanged == UNCHANGED <<rng, twin, disk, hot, tk>>

---------------------------------------------------------------------------
(* Bounds of the model *)

\* Consumed turns explored per run (Game.turn is unbounded in the code).
MaxTurn == 5

\* Manual moves explored per run that consume no turn (made while the game is
\* paused or over); the code does not limit them.
MaxFree == 1

\* Iterations of the cave walk explored (the code stops it after w * h * 50).
MaxCaveSteps == 15

\* The seeds new_game is run with; each fixes one small dungeon (see Dungeon).
NumSeeds == 4

\* Program constants
DEFAULT_W == 40
DEFAULT_H == 20
FOV_RADIUS == 8
POTION_HEAL == 8
ENEMY_LOS_RADIUS == 12

---------------------------------------------------------------------------
(* Arithmetic helpers *)

Abs(n) == IF n < 0 THEN -n ELSE n

Max2(a, b) == IF a >= b THEN a ELSE b

Min2(a, b) == IF a <= b THEN a ELSE b

\* F applied to the value v: names an intermediate result, as a local variable of
\* the code does.
Bind(v, F(_)) == F(v)

\* Python's round() of the non-negative rational n/d: to nearest, ties to even.
PyRound(n, d) ==
    LET q == n \div d
        r == n % d
    IN  IF 2 * r < d THEN q
        ELSE IF 2 * r > d THEN q + 1
        ELSE IF q % 2 = 0 THEN q ELSE q + 1

\* int(v * num / den) for v >= 0: truncation of the product.
PyIntFrac(v, num, den) == (v * num) \div den

Sign(a, b) == IF a = b THEN 0 ELSE IF b > a THEN 1 ELSE -1

Manh(x0, y0, x1, y1) == Abs(x0 - x1) + Abs(y0 - y1)

Cheb(x0, y0, x1, y1) == Max2(Abs(x0 - x1), Abs(y0 - y1))

---------------------------------------------------------------------------
(* Map *)

NoExit == <<-1, -1>>

Cells(m) == (0 .. m.w - 1) \X (0 .. m.h - 1)

in_bounds(m, x, y) == 0 <= x /\ x < m.w /\ 0 <= y /\ y < m.h

is_walkable(m, x, y) == in_bounds(m, x, y) /\ <<x, y>> \in m.tiles

has_door(m, x, y) == <<x, y>> \in DOMAIN m.doors

ClosedDoor(m, x, y) == has_door(m, x, y) /\ ~m.doors[<<x, y>>].open

blocks_sight(m, x, y) ==
    IF ~in_bounds(m, x, y) THEN TRUE
    ELSE IF <<x, y>> \notin m.tiles THEN TRUE
    ELSE ClosedDoor(m, x, y)

\* The points of the integer Bresenham line after (x, y), up to (x1, y1).
RECURSIVE BresenhamFrom(_, _, _, _, _, _, _, _, _)
BresenhamFrom(x, y, x1, y1, dx, dy, sx, sy, err) ==
    IF x = x1 /\ y = y1 THEN <<>>
    ELSE LET e2   == 2 * err
             stx  == e2 >= dy
             err1 == IF stx THEN err + dy ELSE err
             nx   == IF stx THEN x + sx ELSE x
             sty  == e2 <= dx
             err2 == IF sty THEN err1 + dx ELSE err1
             ny   == IF sty THEN y + sy ELSE y
         IN  <<<<nx, ny>>>> \o BresenhamFrom(nx, ny, x1, y1, dx, dy, sx, sy, err2)

bresenham_line(x0, y0, x1, y1) ==
    LET dx == Abs(x1 - x0)
        dy == -Abs(y1 - y0)
        sx == IF x0 < x1 THEN 1 ELSE -1
        sy == IF y0 < y1 THEN 1 ELSE -1
    IN  <<<<x0, y0>>>> \o BresenhamFrom(x0, y0, x1, y1, dx, dy, sx, sy, dx + dy)

\* The loop of has_los over the points after the origin: the first point that is
\* the target gives True, an earlier blocking point gives False.
RECURSIVE LosScan(_, _, _, _, _)
LosScan(m, pts, i, x1, y1) ==
    IF i > Len(pts) THEN TRUE
    ELSE IF pts[i][1] = x1 /\ pts[i][2] = y1 THEN TRUE
    ELSE IF blocks_sight(m, pts[i][1], pts[i][2]) THEN FALSE
    ELSE LosScan(m, pts, i + 1, x1, y1)

\* The line-of-sight test without its radius test.
HasLosAnyDistance(m, x0, y0, x1, y1, radius) ==
    LosScan(m, bresenham_line(x0, y0, x1, y1), 2, x1, y1)

has_los(m, x0, y0, x1, y1, radius) ==
    IF (x1 - x0) * (x1 - x0) + (y1 - y0) * (y1 - y0) > radius * radius THEN FALSE
    ELSE LosScan(m, bresenham_line(x0, y0, x1, y1), 2, x1, y1)

\* recompute_fov: the visible set, and explored grown by it.
FovCells(m, px, py) == {c \in Cells(m) : has_los(m, px, py, c[1], c[2], FOV_RADIUS)}

---------------------------------------------------------------------------
(* Entities and timed effects *)

NoEffects == [k \in {} |-> [dur |-> 0, val |-> 0]]

Entity(x, y, name, hp, power) ==
    [x |-> x, y |-> y, name |-> name, hp |-> hp, max_hp |-> hp, power |-> power,
     effects |-> NoEffects]

is_alive(e) == e.hp > 0

\* Entity reference 0 is the player, i >= 1 is enemies[i].
Ent(g, r) == IF r = 0 THEN g.player ELSE g.enemies[r]

SetEnt(g, r, e) == IF r = 0 THEN [g EXCEPT !.player = e] ELSE [g EXCEPT !.enemies[r] = e]

HasEffect(ent, name) == name \in DOMAIN ent.effects

\* "eff and int(eff.get('dur', 0)) > 0"
ActiveEffect(ent, name) == HasEffect(ent, name) /\ ent.effects[name].dur > 0

_set_effect(ent, name, dur, val) ==
    [ent EXCEPT !.effects = (name :> [dur |-> dur, val |-> val]) @@ @]

_remove_effect(ent, name) ==
    [ent EXCEPT !.effects = [k \in (DOMAIN @) \ {name} |-> @[k]]]

\* _decay_effects deleting only the effects whose duration fell below 0.
DecayKeepingExpired(ent) ==
    [ent EXCEPT !.effects =
        [k \in {n \in DOMAIN @ : @[n].dur - 1 >= 0} |-> [@[k] EXCEPT !.dur = @ - 1]]]

_decay_effects(ent) ==
    [ent EXCEPT !.effects =
        [k \in {n \in DOMAIN @ : @[n].dur - 1 > 0} |-> [@[k] EXCEPT !.dur = @ - 1]]]

\* _atk_mod without the Hex penalty.
AtkModWithoutHex(ent) ==
    IF ActiveEffect(ent, "Frenzy") THEN ent.effects["Frenzy"].val ELSE 0

_atk_mod(ent) ==
    (IF ActiveEffect(ent, "Frenzy") THEN ent.effects["Frenzy"].val ELSE 0)
    - (IF ActiveEffect(ent, "Hex") THEN Abs(ent.effects["Hex"].val) ELSE 0)

_apply_shield(ent, amount, dur) ==
    LET temp == IF HasEffect(ent, "Shield") THEN ent.effects["Shield"].val ELSE 0
    IN  _set_effect(ent, "Shield", dur, temp + amount)

_apply_frenzy(ent, atk_bonus, dur) == _set_effect(ent, "Frenzy", dur, atk_bonus)

_apply_hex(ent, atk_penalty, dur) == _set_effect(ent, "Hex", dur, atk_penalty)

---------------------------------------------------------------------------
(* Combat *)

\* The damage of _compute_damage before its shield absorption: the multiplier is
\* a float, 1.0 or the Aim effect's mul (kept in tenths), and the product is rounded.
RawDamage(attacker) ==
    LET base   == Max2(0, attacker.power + _atk_mod(attacker))
        mult10 == IF ActiveEffect(attacker, "Aim")
                  THEN attacker.effects["Aim"].val ELSE 10
    IN  Max2(0, PyRound(base * mult10, 10))

\* _compute_damage: the damage to apply, and the defender with its shield pool
\* reduced (the function mutates the defender's Shield effect in place).
_compute_damage(attacker, defender) ==
    LET raw == RawDamage(attacker)
        temp == IF ActiveEffect(defender, "Shield") THEN defender.effects["Shield"].val ELSE 0
        absorbed == IF temp > 0 THEN Min2(raw, temp) ELSE 0
    IN  [dmg      |-> Max2(0, raw - absorbed),
         raw      |-> raw,
         defender |-> IF temp > 0
                      THEN [defender EXCEPT !.effects["Shield"].val = temp - absorbed]
                      ELSE defender]

\* The shield pool of an entity as _compute_damage reads it.
ShieldPool(ent) ==
    IF ActiveEffect(ent, "Shield") THEN Max2(0, ent.effects["Shield"].val) ELSE 0

\* attack(attacker, defender): a and d are entity references.  g.hits gains the
\* record of the hit (history): who hit whom, the attacker's power and effects,
\* the defender's effects, shield pool and hp before, the damage before
\* absorption (raw) and applied (dmg), the pool and hp after.
attack(g, a, d) ==
    Bind(_compute_damage(Ent(g, a), Ent(g, d)), LAMBDA cd :
    Bind([cd.defender EXCEPT !.hp = @ - cd.dmg], LAMBDA def1 :
        LET att  == Ent(g, a)
            def0 == Ent(g, d)
            g1   == SetEnt(g, d, def1)
        IN  [g1 EXCEPT !.state = IF def1.hp <= 0 /\ d = 0 THEN "game_over" ELSE @,
                       !.hits = Append(@,
                           [kind |-> "attack", att |-> a, def |-> d, power |-> att.power,
                            afx |-> att.effects, dfx |-> def0.effects,
                            raw |-> cd.raw, dmg |-> cd.dmg,
                            pool0 |-> ShieldPool(def0), pool1 |-> ShieldPool(def1),
                            hp0 |-> def0.hp, hp1 |-> def1.hp])]))

---------------------------------------------------------------------------
(* Movement, doors, items, exit *)

\* The index of the first living enemy at (x, y), 0 if none.
EnemyAt(g, x, y) ==
    LET S == {i \in 1 .. Len(g.enemies) :
                g.enemies[i].x = x /\ g.enemies[i].y = y /\ is_alive(g.enemies[i])}
    IN  IF S = {} THEN 0 ELSE CHOOSE i \in S : \A j \in S : i <= j

PlayerAt(g, x, y) == g.player.x = x /\ g.player.y = y /\ is_alive(g.player)

is_blocked(g, x, y) ==
    \/ ~is_walkable(g.map, x, y)
    \/ ClosedDoor(g.map, x, y)
    \/ PlayerAt(g, x, y)
    \/ EnemyAt(g, x, y) # 0

CountKind(its, x, y, kind) ==
    Cardinality({i \in 1 .. Len(its) : its[i].x = x /\ its[i].y = y /\ its[i].kind = kind})

\* _pickup_items_at dropping the potions it finds instead of pocketing them.
PickupLosingPotions(g, x, y) ==
    LET picked      == CountKind(g.items, x, y, "potion")
        picked_keys == CountKind(g.items, x, y, "key")
        Remains(it) == ~(it.x = x /\ it.y = y)
        remaining   == SelectSeq(g.items, Remains)
    IN  [g EXCEPT !.inventory = [potion |-> @.potion, key |-> @.key + picked_keys],
                  !.items = IF picked > 0 \/ picked_keys > 0 THEN remaining ELSE @]

_pickup_items_at(g, x, y) ==
    LET picked      == CountKind(g.items, x, y, "potion")
        picked_keys == CountKind(g.items, x, y, "key")
        Remains(it) == ~(it.x = x /\ it.y = y)
        remaining   == SelectSeq(g.items, Remains)
    IN  [g EXCEPT !.inventory = [potion |-> @.potion + picked, key |-> @.key + picked_keys],
                  !.items = IF picked > 0 \/ picked_keys > 0 THEN remaining ELSE @]

_on_victory(g) == [g EXCEPT !.state = "victory", !.won = TRUE]

OpenDoor(g, x, y) == [g EXCEPT !.map.doors[<<x, y>>].open = TRUE]

\* move_entity without the key test: the player opens locked doors empty-handed.
MoveEntityWithoutKeyTest(g, r, dx, dy) ==
    LET ent == Ent(g, r)
        nx  == ent.x + dx
        ny  == ent.y + dy
        target == IF r = 0 THEN EnemyAt(g, nx, ny)
                  ELSE IF PlayerAt(g, nx, ny) THEN 0 ELSE -1
        hasTarget == IF r = 0 THEN target # 0 ELSE target = 0
        closed == ClosedDoor(g.map, nx, ny)
        locked == closed /\ g.map.doors[<<nx, ny>>].locked
        g1 == IF closed THEN OpenDoor(g, nx, ny) ELSE g
        g2 == SetEnt(g1, r, [ent EXCEPT !.x = nx, !.y = ny])
        g3 == IF r = 0
              THEN LET gp == _pickup_items_at(g2, nx, ny)
                   IN  IF g.exit # NoExit /\ <<nx, ny>> = g.exit THEN _on_victory(gp) ELSE gp
              ELSE g2
    IN  IF ~in_bounds(g.map, nx, ny) THEN g
        ELSE IF ~is_walkable(g.map, nx, ny) THEN g
        ELSE IF hasTarget THEN attack(g, r, target)
        ELSE IF r # 0 /\ locked THEN g
        ELSE g3

\* move_entity spending a key on every locked door the player opens.
MoveEntitySpendingKey(g, r, dx, dy) ==
    LET ent == Ent(g, r)
        nx  == ent.x + dx
        ny  == ent.y + dy
        target == IF r = 0 THEN EnemyAt(g, nx, ny)
                  ELSE IF PlayerAt(g, nx, ny) THEN 0 ELSE -1
        hasTarget == IF r = 0 THEN target # 0 ELSE target = 0
        closed == ClosedDoor(g.map, nx, ny)
        locked == closed /\ g.map.doors[<<nx, ny>>].locked
        g1 == IF closed
              THEN [OpenDoor(g, nx, ny) EXCEPT !.inventory.key = IF locked THEN @ - 1 ELSE @]
              ELSE g
        g2 == SetEnt(g1, r, [ent EXCEPT !.x = nx, !.y = ny])
        g3 == IF r = 0
              THEN LET gp == _pickup_items_at(g2, nx, ny)
                   IN  IF g.exit # NoExit /\ <<nx, ny>> = g.exit THEN _on_victory(gp) ELSE gp
              ELSE g2
    IN  IF ~in_bounds(g.map, nx, ny) THEN g
        ELSE IF ~is_walkable(g.map, nx, ny) THEN g
        ELSE IF hasTarget THEN attack(g, r, target)
        ELSE IF r = 0 /\ locked /\ g.inventory.key <= 0 THEN g
        ELSE IF r # 0 /\ locked THEN g
        ELSE g3

\* move_entity(ent, dx, dy) with attack_on_block = True; r is the entity reference.
move_entity(g, r, dx, dy) ==
    LET ent == Ent(g, r)
        nx  == ent.x + dx
        ny  == ent.y + dy
        target == IF r = 0 THEN EnemyAt(g, nx, ny)
                  ELSE IF PlayerAt(g, nx, ny) THEN 0 ELSE -1
        hasTarget == IF r = 0 THEN target # 0 ELSE target = 0
        closed == ClosedDoor(g.map, nx, ny)
        locked == closed /\ g.map.doors[<<nx, ny>>].locked
        g1 == IF closed THEN OpenDoor(g, nx, ny) ELSE g
        g2 == SetEnt(g1, r, [ent EXCEPT !.x = nx, !.y = ny])
        g3 == IF r = 0
              THEN LET gp == _pickup_items_at(g2, nx, ny)
                   IN  IF g.exit # NoExit /\ <<nx, ny>> = g.exit THEN _on_victory(gp) ELSE gp
              ELSE g2
    IN  IF ~in_bounds(g.map, nx, ny) THEN g
        ELSE IF ~is_walkable(g.map, nx, ny) THEN g
        ELSE IF hasTarget THEN attack(g, r, target)
        ELSE IF r = 0 /\ locked /\ g.inventory.key <= 0 THEN g
        ELSE IF r # 0 /\ locked THEN g
        ELSE g3

\* use_potion healing past max_hp.
UsePotionUncapped(g) ==
    IF g.inventory.potion <= 0 THEN [ok |-> FALSE, g |-> g]
    ELSE IF g.player.hp >= g.player.max_hp THEN [ok |-> FALSE, g |-> g]
    ELSE [ok |-> TRUE,
          g  |-> [g EXCEPT !.player.hp = @ + POTION_HEAL,
                           !.inventory.potion = @ - 1,
                           !.run_items_used = @ + 1]]

\* use_potion drinking at full hp.
UsePotionAtFullHp(g) ==
    IF g.inventory.potion <= 0 THEN [ok |-> FALSE, g |-> g]
    ELSE [ok |-> TRUE,
          g  |-> [g EXCEPT !.player.hp = Min2(g.player.max_hp, @ + POTION_HEAL),
                           !.inventory.potion = @ - 1,
                           !.run_items_used = @ + 1]]

use_potion(g) ==
    IF g.inventory.potion <= 0 THEN [ok |-> FALSE, g |-> g]
    ELSE IF g.player.hp >= g.player.max_hp THEN [ok |-> FALSE, g |-> g]
    ELSE [ok |-> TRUE,
          g  |-> [g EXCEPT !.player.hp = Min2(g.player.max_hp, @ + POTION_HEAL),
                           !.inventory.potion = @ - 1,
                           !.run_items_used = @ + 1]]

---------------------------------------------------------------------------
(* Enemy phase *)

\* What one enemy did on its turn of the last enemy phase (history).
\* took: it took its turn; ev: what its role did; canShoot: it stood non-adjacent,
\* aligned, in sight and 2 to 5 tiles from the player; aimedBefore: its previous
\* turn started an Aim; decays: how often its effects were decayed; pre and post:
\* its effects as the decay found and left them.
NoTurn == [took |-> FALSE, ev |-> "none", canShoot |-> FALSE, decays |-> 0,
           aimedBefore |-> FALSE, pre |-> NoEffects, post |-> NoEffects,
           seq |-> 0, ehp |-> 0, php |-> 0, step |-> <<-1, -1>>, stepFree |-> FALSE,
           shield |-> [tgt |-> 0, missing |-> <<>>, dist |-> <<>>]]

NoElog(n) == [i \in 1 .. n |-> NoTurn]

Dirs5 == <<<<1, 0>>, <<-1, 0>>, <<0, 1>>, <<0, -1>>, <<0, 0>>>>

\* The archer branch.  Returns [g, acted, ev].
ArcherAct(g, i) ==
    LET e  == g.enemies[i]
        p  == g.player
        in_line == e.x = p.x \/ e.y = p.y
        has     == IF in_line THEN has_los(g.map, e.x, e.y, p.x, p.y, ENEMY_LOS_RADIUS) ELSE FALSE
        within  == 2 <= Cheb(e.x, e.y, p.x, p.y) /\ Cheb(e.x, e.y, p.x, p.y) <= 5
        cd      == IF g.menu_tier < 3 THEN 2 ELSE 1
    IN  IF ActiveEffect(e, "Aim")
        THEN IF has /\ within
             THEN \* dmg = _compute_damage(e, player) for the log line, then attack()
                  Bind(_compute_damage(e, p), LAMBDA first :
                  Bind(attack([g EXCEPT !.player = first.defender], i, 0), LAMBDA g1 :
                      [g |-> [g1 EXCEPT
                                 !.enemies[i] = _set_effect(_remove_effect(@, "Aim"),
                                                            "AimCD", cd, 0),
                                 !.hits[Len(g1.hits)] =
                                     [@ EXCEPT !.kind = "shot", !.raw = first.raw,
                                               !.dfx = p.effects,
                                               !.pool0 = ShieldPool(p),
                                               !.hp0 = p.hp]],
                       acted |-> TRUE, ev |-> "shot"]))
             ELSE [g |-> [g EXCEPT !.enemies[i] = _remove_effect(e, "Aim")],
                   acted |-> FALSE, ev |-> "drop"]
        ELSE IF ~HasEffect(e, "AimCD") /\ has /\ within
        THEN [g |-> [g EXCEPT !.enemies[i] = _set_effect(e, "Aim", 1, 20)],
              acted |-> TRUE, ev |-> "aim"]
        ELSE [g |-> g, acted |-> FALSE, ev |-> "none"]

\* The least element of a non-empty set of integers.
MinOf(S) == CHOOSE a \in S : \A b \in S : a <= b

\* The priest branch: candidates are the wounded living enemies, sorted (stably)
\* by Manhattan distance to the priest; the first is shielded.
PriestCand(g) ==
    {a \in 1 .. Len(g.enemies) :
        is_alive(g.enemies[a]) /\ g.enemies[a].hp < g.enemies[a].max_hp}

PriestTarget(g, i) ==
    LET e    == g.enemies[i]
        cand == PriestCand(g)
        D(a) == Manh(g.enemies[a].x, g.enemies[a].y, e.x, e.y)
        best == MinOf({D(a) : a \in cand})
    IN  IF cand = {} THEN 0 ELSE MinOf({a \in cand : D(a) = best})

PriestAct(g, i) ==
    LET tgt == PriestTarget(g, i)
    IN  IF tgt # 0
        THEN [g |-> [g EXCEPT !.enemies[tgt] = _apply_shield(@, 3, 3)],
              acted |-> TRUE, ev |-> "shield"]
        ELSE [g |-> g, acted |-> FALSE, ev |-> "none"]

\* What a priest's turn saw and chose (history): the ally it shields (0: none)
\* and, for each wounded living enemy, the hp it misses and its Manhattan
\* distance to the priest.
PriestChoice(g, i) ==
    [tgt     |-> PriestTarget(g, i),
     missing |-> [a \in PriestCand(g) |-> g.enemies[a].max_hp - g.enemies[a].hp],
     dist    |-> [a \in PriestCand(g) |->
                    Manh(g.enemies[a].x, g.enemies[a].y, g.enemies[i].x, g.enemies[i].y)]]

\* The indices in S in increasing order.
RECURSIVE SortedSeq(_)
SortedSeq(S) == IF S = {} THEN <<>> ELSE <<MinOf(S)>> \o SortedSeq(S \ {MinOf(S)})

\* The shaman branch; pick is the rng.choice draw among the allies in radius 3.
ShamanAct(g, i, pick) ==
    LET e == g.enemies[i]
        allies_near == SortedSeq({a \in 1 .. Len(g.enemies) :
                          /\ is_alive(g.enemies[a])
                          /\ Manh(g.enemies[a].x, g.enemies[a].y, e.x, e.y) <= 3
                          /\ a # i})
        n == Len(allies_near)
        should_frenzy == n >= 2 \/ (g.menu_tier >= 3 /\ n >= 1)
        tgt == allies_near[((pick - 1) % n) + 1]
    IN  IF should_frenzy /\ n > 0
        THEN [g |-> [g EXCEPT !.enemies[tgt] = _apply_frenzy(@, 1, 3)],
              acted |-> TRUE, ev |-> "frenzy"]
        ELSE [g |-> [g EXCEPT !.player = _apply_hex(@, 1, 3)],
              acted |-> TRUE, ev |-> "hex"]

\* Default movement of enemy i, which stands at (ex, ey); wander is the rng draw:
\* 0 when rng.random() >= 0.3, k >= 1 for direction Dirs5[k].
DefaultMove(g, i, wander) ==
    LET e  == g.enemies[i]
        ex == e.x
        ey == e.y
        px == g.player.x
        py == g.player.y
        dx == Sign(ex, px)
        dy == Sign(ey, py)
        StepX == [g EXCEPT !.enemies[i].x = @ + dx]
        StepY == [g EXCEPT !.enemies[i].y = @ + dy]
        wd == Dirs5[wander]
    IN  IF has_los(g.map, ex, ey, px, py, ENEMY_LOS_RADIUS)
        THEN IF Abs(px - ex) >= Abs(py - ey)
             THEN IF ~is_blocked(g, ex + dx, ey) THEN StepX
                  ELSE IF ~is_blocked(g, ex, ey + dy) THEN StepY
                  ELSE g
             ELSE IF ~is_blocked(g, ex, ey + dy) THEN StepY
                  ELSE IF ~is_blocked(g, ex + dx, ey) THEN StepX
                  ELSE g
        ELSE IF wander = 0 THEN g
        ELSE IF ~is_blocked(g, ex + wd[1], ey + wd[2])
             THEN [g EXCEPT !.enemies[i].x = @ + wd[1], !.enemies[i].y = @ + wd[2]]
             ELSE g

\* The tile the default movement of enemy i tries first: the step toward the
\* player along the longer axis when the player is in sight, the drawn direction
\* when it wanders, <<-1, -1>> when it draws no move.
StepTarget(g, i, wander) ==
    LET e  == g.enemies[i]
        px == g.player.x
        py == g.player.y
        wd == Dirs5[wander]
    IN  IF has_los(g.map, e.x, e.y, px, py, ENEMY_LOS_RADIUS)
        THEN IF Abs(px - e.x) >= Abs(py - e.y)
             THEN <<e.x + Sign(e.x, px), e.y>>
             ELSE <<e.x, e.y + Sign(e.y, py)>>
        ELSE IF wander = 0 THEN <<-1, -1>>
        ELSE <<e.x + wd[1], e.y + wd[2]>>

\* Whether tile c is in bounds, walkable and holds no living entity.
TileFree(g, c) ==
    /\ in_bounds(g.map, c[1], c[2])
    /\ is_walkable(g.map, c[1], c[2])
    /\ EnemyAt(g, c[1], c[2]) = 0
    /\ ~PlayerAt(g, c[1], c[2])

\* End-of-turn regeneration of a troll.
TrollRegen(g, i) ==
    LET e == g.enemies[i]
        regen == IF g.menu_tier >= 3 THEN 2 ELSE 1
    IN  IF e.name = "Troll" /\ is_alive(e) /\ e.hp > 0 /\ e.hp < e.max_hp
        THEN [g EXCEPT !.enemies[i].hp = Min2(e.max_hp, e.hp + regen)]
        ELSE g

\* The body of the enemy_turns loop for the living enemy i while the player lives.
\* The log entry keeps the enemy's place in the order of the phase (seq) and the
\* hp of the enemy and of the player when its turn began (ehp, php).
EnemyTurn(g, i, draw) ==
    LET e  == g.enemies[i]
        p  == g.player
        adjacent == Manh(e.x, e.y, p.x, p.y) = 1
        canShoot == /\ ~adjacent
                    /\ (e.x = p.x \/ e.y = p.y)
                    /\ has_los(g.map, e.x, e.y, p.x, p.y, ENEMY_LOS_RADIUS)
                    /\ 2 <= Cheb(e.x, e.y, p.x, p.y) /\ Cheb(e.x, e.y, p.x, p.y) <= 5
        Role == IF adjacent THEN [g |-> attack(g, i, 0), acted |-> TRUE, ev |-> "melee"]
                ELSE IF e.name = "Archer" THEN ArcherAct(g, i)
                ELSE IF e.name = "Priest" THEN PriestAct(g, i)
                ELSE IF e.name = "Shaman" THEN ShamanAct(g, i, draw.pick)
                ELSE [g |-> g, acted |-> FALSE, ev |-> "none"]
        Moved(role) == IF role.acted THEN role.g ELSE DefaultMove(role.g, i, draw.wander)
    IN  Bind(Role, LAMBDA role :
        Bind(TrollRegen(Moved(role), i), LAMBDA g2 :
        Bind(_decay_effects(g2.enemies[i]), LAMBDA e3 :
            [g2 EXCEPT !.enemies[i] = e3,
                       !.elog[i] = [took |-> TRUE, ev |-> role.ev, canShoot |-> canShoot,
                                    decays |-> @.decays + 1, aimedBefore |-> i \in g.aimed,
                                    pre |-> g2.enemies[i].effects,
                                    post |-> e3.effects,
                                    seq |-> Cardinality({j \in DOMAIN g.elog :
                                                            g.elog[j].took}) + 1,
                                    ehp |-> e.hp, php |-> p.hp,
                                    step |-> IF role.acted THEN <<-1, -1>>
                                             ELSE StepTarget(role.g, i, draw.wander),
                                    stepFree |-> IF role.acted THEN FALSE
                                                 ELSE TileFree(role.g,
                                                        StepTarget(role.g, i, draw.wander)),
                                    shield |-> IF e.name = "Priest" /\ ~adjacent
                                               THEN PriestChoice(g, i)
                                               ELSE NoTurn.shield],
                       !.aimed = IF role.ev = "aim" THEN @ \cup {i} ELSE @ \ {i}])))

\* The loop without its "break": the enemies after the player's death act too.
RECURSIVE EnemyLoopNoBreak(_, _, _)
EnemyLoopNoBreak(g, i, rs) ==
    IF i > Len(g.enemies) THEN g
    ELSE IF ~is_alive(g.enemies[i]) THEN EnemyLoopNoBreak(g, i + 1, rs)
    ELSE EnemyLoopNoBreak(EnemyTurn(g, i, rs[i]), i + 1, rs)

RECURSIVE EnemyLoop(_, _, _)
EnemyLoop(g, i, rs) ==
    IF i > Len(g.enemies) THEN g
    ELSE IF ~is_alive(g.enemies[i]) THEN EnemyLoop(g, i + 1, rs)
    ELSE IF ~is_alive(g.player) THEN g
    ELSE EnemyLoop(EnemyTurn(g, i, rs[i]), i + 1, rs)

\* enemy_turns(); rs[i] is the pair of rng draws enemy i may consume.
enemy_turns(g, rs) == EnemyLoop([g EXCEPT !.phase = TRUE], 1, rs)

---------------------------------------------------------------------------
(* Autoplay planner *)

NoCell == <<-1, -1>>

\* Whether the planner may step on (nx, ny): in bounds, walkable, and not a closed
\* locked door while the player holds no key.
Nbr4Ok(g, nx, ny) ==
    /\ in_bounds(g.map, nx, ny)
    /\ is_walkable(g.map, nx, ny)
    /\ ~(/\ ClosedDoor(g.map, nx, ny)
         /\ g.map.doors[<<nx, ny>>].locked
         /\ g.inventory.key <= 0)

_neighbors4(g, x, y) ==
    LET cand == <<<<x + 1, y>>, <<x - 1, y>>, <<x, y + 1>>, <<x, y - 1>>>>
        Ok(c) == Nbr4Ok(g, c[1], c[2])
    IN  SelectSeq(cand, Ok)

\* The occupancy test that finds every tile free.
NothingOccupied(g, x, y) == FALSE

_is_occupied(g, x, y) ==
    \/ (is_alive(g.player) /\ <<x, y>> = <<g.player.x, g.player.y>>)
    \/ \E i \in 1 .. Len(g.enemies) :
          is_alive(g.enemies[i]) /\ <<g.enemies[i].x, g.enemies[i].y>> = <<x, y>>

\* The path from the start to cell at, following the came map back.
RECURSIVE PathTo(_, _)
PathTo(came, at) == IF at = NoCell THEN <<>> ELSE PathTo(came, came[at]) \o <<at>>

\* The inner loop with the queue used as a stack (depth first).
RECURSIVE BfsExpandLifo(_, _, _, _, _, _, _)
BfsExpandLifo(g, goal_set, nbrs, k, cur, q, came) ==
    IF k > Len(nbrs) THEN [q |-> q, came |-> came]
    ELSE LET nxt == nbrs[k]
         IN  IF nxt \in DOMAIN came
             THEN BfsExpandLifo(g, goal_set, nbrs, k + 1, cur, q, came)
             ELSE IF nxt \notin goal_set /\ _is_occupied(g, nxt[1], nxt[2])
             THEN BfsExpandLifo(g, goal_set, nbrs, k + 1, cur, q, came)
             ELSE BfsExpandLifo(g, goal_set, nbrs, k + 1, cur, <<nxt>> \o q,
                                (nxt :> cur) @@ came)

\* The inner loop of _bfs_path over the neighbours of cur: [q, came].
RECURSIVE BfsExpand(_, _, _, _, _, _, _)
BfsExpand(g, goal_set, nbrs, k, cur, q, came) ==
    IF k > Len(nbrs) THEN [q |-> q, came |-> came]
    ELSE LET nxt == nbrs[k]
         IN  IF nxt \in DOMAIN came
             THEN BfsExpand(g, goal_set, nbrs, k + 1, cur, q, came)
             ELSE IF nxt \notin goal_set /\ _is_occupied(g, nxt[1], nxt[2])
             THEN BfsExpand(g, goal_set, nbrs, k + 1, cur, q, came)
             ELSE BfsExpand(g, goal_set, nbrs, k + 1, cur, Append(q, nxt),
                            (nxt :> cur) @@ came)

RECURSIVE BfsLoop(_, _, _, _)
BfsLoop(g, goal_set, q, came) ==
    IF q = <<>> THEN <<>>
    ELSE LET cur == Head(q)
         IN  IF cur \in goal_set THEN PathTo(came, cur)
             ELSE Bind(BfsExpand(g, goal_set, _neighbors4(g, cur[1], cur[2]), 1, cur,
                                 Tail(q), came),
                       LAMBDA r : BfsLoop(g, goal_set, r.q, r.came))

\* _bfs_path(start, goals): the path including start, or <<>> for None.
_bfs_path(g, start, goal_set) ==
    IF goal_set = {} THEN <<>>
    ELSE BfsLoop(g, goal_set, <<start>>, (start :> NoCell))

_frontier_targets(g) ==
    {c \in Cells(g.map) :
        /\ is_walkable(g.map, c[1], c[2])
        /\ (c \in g.map.explored \/ c \in g.visible)
        /\ \E k \in 1 .. Len(_neighbors4(g, c[1], c[2])) :
              _neighbors4(g, c[1], c[2])[k] \notin g.map.explored}

\* The indices of the living enemies standing on visible cells.
_visible_enemies(g) ==
    {i \in 1 .. Len(g.enemies) :
        /\ is_alive(g.enemies[i])
        /\ in_bounds(g.map, g.enemies[i].x, g.enemies[i].y)
        /\ <<g.enemies[i].x, g.enemies[i].y>> \in g.visible}

_visible_items(g, kind) ==
    {<<g.items[k].x, g.items[k].y>> : k \in {j \in 1 .. Len(g.items) :
        /\ in_bounds(g.map, g.items[j].x, g.items[j].y)
        /\ <<g.items[j].x, g.items[j].y>> \in g.visible
        /\ g.items[j].kind = kind}}

RECURSIVE SumPower(_, _)
SumPower(g, S) ==
    IF S = {} THEN 0
    ELSE LET i == MinOf(S) IN Max2(1, g.enemies[i].power) + SumPower(g, S \ {i})

\* The risk estimate without its first test (hp <= 40% of max_hp).
ShouldFleeWithoutLowHp(g) ==
    LET p == g.player
        near == {i \in _visible_enemies(g) :
                    Cheb(g.enemies[i].x, g.enemies[i].y, p.x, p.y) <= 1}
    IN  \/ (HasEffect(p, "Hex") /\ p.hp <= Max2(1, PyIntFrac(p.max_hp, 5, 10)))
        \/ (Cardinality(near) >= 2 /\ SumPower(g, near) >= p.hp \div 2)

_estimate_risk_should_flee(g) ==
    LET p == g.player
        near == {i \in _visible_enemies(g) :
                    Cheb(g.enemies[i].x, g.enemies[i].y, p.x, p.y) <= 1}
    IN  \/ p.hp <= Max2(1, PyIntFrac(p.max_hp, 4, 10))
        \/ (HasEffect(p, "Hex") /\ p.hp <= Max2(1, PyIntFrac(p.max_hp, 5, 10)))
        \/ (Cardinality(near) >= 2 /\ SumPower(g, near) >= p.hp \div 2)

_has_dangerous_adjacent(g) ==
    \E i \in _visible_enemies(g) :
        /\ Manh(g.enemies[i].x, g.enemies[i].y, g.player.x, g.player.y) = 1
        /\ (g.enemies[i].power >= 4 \/ g.enemies[i].name \in {"Troll", "Shaman"})

\* The steps a rule of the planner looks at: the neighbours that are free, then
\* the player's own cell.
StepCands(g) ==
    LET px == g.player.x
        py == g.player.y
        Free(c) == ~_is_occupied(g, c[1], c[2])
    IN  SelectSeq(_neighbors4(g, px, py), Free) \o <<<<px, py>>>>

\* The first index of seq whose element satisfies P, 0 if none.
FirstIdx(seq, P(_)) ==
    LET S == {k \in 1 .. Len(seq) : P(seq[k])}
    IN  IF S = {} THEN 0 ELSE MinOf(S)

RolePri(name) ==
    CASE name = "Shaman" -> 0
      [] name = "Priest" -> 1
      [] name = "Archer" -> 2
      [] name = "Troll"  -> 3
      [] name = "Goblin" -> 4
      [] OTHER -> 9

\* An archer a "has a line" on cell (x, y): same row or column, line of sight
\* within radius 12, and at least 2 tiles away.
ArcherLine(g, a, x, y) ==
    LET e == g.enemies[a]
    IN  /\ (e.x = x \/ e.y = y)
        /\ has_los(g.map, e.x, e.y, x, y, ENEMY_LOS_RADIUS)
        /\ Cheb(e.x, e.y, x, y) >= 2

Plan(kind, dx, dy, path, rule) ==
    [kind |-> kind, dx |-> dx, dy |-> dy, path |-> path, rule |-> rule]

PathStep(g, path, rule) ==
    Plan("move", path[2][1] - g.player.x, path[2][2] - g.player.y,
         SubSeq(path, 2, Min2(Len(path), 7)), rule)

\* Rule 1: flee.  Undecided (kind "none") when the rule does not apply.
BotFlee(g) ==
    Bind(_visible_enemies(g), LAMBDA vis :
    Bind(StepCands(g), LAMBDA cands :
        LET px == g.player.x
            py == g.player.y
            Score(c) == MinOf({Manh(c[1], c[2], g.enemies[e].x, g.enemies[e].y) : e \in vis})
            scores == [k \in 1 .. Len(cands) |-> Score(cands[k])]
            IsTop(k) == \A j \in 1 .. Len(cands) : scores[j] <= scores[k]
        IN  IF _estimate_risk_should_flee(g) /\ vis # {}
            THEN Bind(cands[MinOf({k \in 1 .. Len(cands) : IsTop(k)})], LAMBDA best :
                     IF best # <<px, py>>
                     THEN Plan("move", best[1] - px, best[2] - py, <<>>, "flee")
                     ELSE Plan("wait", 0, 0, <<>>, "hold"))
            ELSE Plan("none", 0, 0, <<>>, "none")))

\* Rule 1.2: an aiming archer has a line on the player.
BotAvoidAim(g) ==
    Bind({a \in _visible_enemies(g) :
             /\ g.enemies[a].name = "Archer"
             /\ HasEffect(g.enemies[a], "Aim")
             /\ ArcherLine(g, a, g.player.x, g.player.y)}, LAMBDA aiming :
    Bind(StepCands(g), LAMBDA cands :
        LET px == g.player.x
            py == g.player.y
            Good(c) == \/ \A a \in aiming : ~ArcherLine(g, a, c[1], c[2])
                       \/ \E a \in aiming :
                             Manh(c[1], c[2], g.enemies[a].x, g.enemies[a].y) = 1
        IN  Bind(FirstIdx(cands, Good), LAMBDA k :
                IF aiming # {} /\ k # 0 /\ cands[k] # <<px, py>>
                THEN Plan("move", cands[k][1] - px, cands[k][2] - py, <<>>, "avoid_aim")
                ELSE Plan("none", 0, 0, <<>>, "none"))))

\* Rule 1.3: stand out of the line of any visible archer.
BotAvoidLos(g) ==
    Bind({a \in _visible_enemies(g) : g.enemies[a].name = "Archer"}, LAMBDA vis_archers :
    Bind(StepCands(g), LAMBDA cands :
        LET px == g.player.x
            py == g.player.y
            Safe(c) == ~\E a \in vis_archers : ArcherLine(g, a, c[1], c[2])
        IN  Bind(FirstIdx(cands, Safe), LAMBDA k :
                IF vis_archers # {} /\ ~Safe(<<px, py>>) /\ k # 0 /\ cands[k] # <<px, py>>
                THEN Plan("move", cands[k][1] - px, cands[k][2] - py, <<>>, "avoid_los")
                ELSE Plan("none", 0, 0, <<>>, "none"))))

ExitVisible(g) ==
    /\ g.exit # NoExit
    /\ in_bounds(g.map, g.exit[1], g.exit[2])
    /\ g.exit \in g.visible

\* Rule 1.5: a visible exit at most 6 tiles away.
BotExitNear(g) ==
    LET p == g.player
    IN  IF /\ ExitVisible(g)
           /\ p.hp >= Max2(1, PyIntFrac(p.max_hp, 3, 10))
           /\ Manh(g.exit[1], g.exit[2], p.x, p.y) <= 6
           /\ ~_has_dangerous_adjacent(g)
        THEN Bind(_bfs_path(g, <<p.x, p.y>>, {g.exit}), LAMBDA path :
                 IF Len(path) >= 2 THEN PathStep(g, path, "exit_near")
                 ELSE Plan("none", 0, 0, <<>>, "none"))
        ELSE Plan("none", 0, 0, <<>>, "none")

\* Rule 2: attack an adjacent enemy, by role priority, then hp, then list order.
BotAttack(g) ==
    LET p == g.player
        adj == {i \in _visible_enemies(g) :
                   Manh(g.enemies[i].x, g.enemies[i].y, p.x, p.y) = 1}
        Before(i, j) ==
            LET a == g.enemies[i]
                b == g.enemies[j]
            IN  \/ RolePri(a.name) < RolePri(b.name)
                \/ (RolePri(a.name) = RolePri(b.name) /\ a.hp < b.hp)
                \/ (RolePri(a.name) = RolePri(b.name) /\ a.hp = b.hp /\ i <= j)
        t == CHOOSE i \in adj : \A j \in adj : Before(i, j)
    IN  IF adj # {}
        THEN Plan("move", Sign(p.x, g.enemies[t].x), Sign(p.y, g.enemies[t].y), <<>>, "attack")
        ELSE Plan("none", 0, 0, <<>>, "none")

\* The loot rule heading for a visible potion without asking for a path.
BotLootBlind(g) ==
    Bind(_visible_items(g, "potion"), LAMBDA goals :
        IF goals # {}
        THEN Bind(CHOOSE c \in goals : TRUE, LAMBDA c :
                 Plan("move", Sign(g.player.x, c[1]),
                      IF c[1] = g.player.x THEN Sign(g.player.y, c[2]) ELSE 0,
                      <<>>, "loot"))
        ELSE Plan("none", 0, 0, <<>>, "none"))

\* Rule 2.5: a visible potion.
BotLoot(g) ==
    Bind(_visible_items(g, "potion"), LAMBDA goals :
    Bind(_bfs_path(g, <<g.player.x, g.player.y>>, goals), LAMBDA path :
        IF goals # {} /\ Len(path) >= 2
        THEN PathStep(g, path, "loot")
        ELSE Plan("none", 0, 0, <<>>, "none")))

\* Rule 3: chase a visible enemy: first the one of highest role priority (then
\* nearest, then list order), else any of them.
BotChase(g) ==
    LET p == g.player
        vis == _visible_enemies(g)
        D(i) == Manh(g.enemies[i].x, g.enemies[i].y, p.x, p.y)
        Before(i, j) ==
            LET a == g.enemies[i]
                b == g.enemies[j]
            IN  \/ RolePri(a.name) < RolePri(b.name)
                \/ (RolePri(a.name) = RolePri(b.name) /\ D(i) < D(j))
                \/ (RolePri(a.name) = RolePri(b.name) /\ D(i) = D(j) /\ i <= j)
        Goals(S) == {<<g.enemies[i].x, g.enemies[i].y>> : i \in S}
    IN  IF vis = {} THEN Plan("none", 0, 0, <<>>, "none")
        ELSE Bind(CHOOSE i \in vis : \A j \in vis : Before(i, j), LAMBDA t :
             Bind(_bfs_path(g, <<p.x, p.y>>, Goals({t})), LAMBDA p1 :
                 IF Len(p1) >= 2 THEN PathStep(g, p1, "chase")
                 ELSE Bind(_bfs_path(g, <<p.x, p.y>>, Goals(vis)), LAMBDA p2 :
                          IF Len(p2) >= 2 THEN PathStep(g, p2, "chase")
                          ELSE Plan("none", 0, 0, <<>>, "none"))))

\* Rule 3.5: a visible exit, however far.
BotExitFar(g) ==
    IF ExitVisible(g)
    THEN Bind(_bfs_path(g, <<g.player.x, g.player.y>>, {g.exit}), LAMBDA path :
             IF Len(path) >= 2 THEN PathStep(g, path, "exit_far")
             ELSE Plan("none", 0, 0, <<>>, "none"))
    ELSE Plan("none", 0, 0, <<>>, "none")

\* Rule 4: explore the nearest frontier.
BotExplore(g) ==
    Bind(_frontier_targets(g), LAMBDA frontier :
    Bind(_bfs_path(g, <<g.player.x, g.player.y>>, frontier), LAMBDA path :
        IF frontier # {} /\ Len(path) >= 2
        THEN PathStep(g, path, "explore")
        ELSE Plan("none", 0, 0, <<>>, "none")))

\* The rules with attack tried first and flee fifth.
BotRuleAttackFirst(g, k) ==
    CASE k = 1 -> BotAttack(g)
      [] k = 2 -> BotAvoidAim(g)
      [] k = 3 -> BotAvoidLos(g)
      [] k = 4 -> BotExitNear(g)
      [] k = 5 -> BotFlee(g)
      [] k = 6 -> BotLoot(g)
      [] k = 7 -> BotChase(g)
      [] k = 8 -> BotExitFar(g)
      [] OTHER -> BotExplore(g)

\* The rules of bot_choose_action in the order the function tries them; rule k
\* is evaluated only when the rules before it did not decide.
BotRule(g, k) ==
    CASE k = 1 -> BotFlee(g)
      [] k = 2 -> BotAvoidAim(g)
      [] k = 3 -> BotAvoidLos(g)
      [] k = 4 -> BotExitNear(g)
      [] k = 5 -> BotAttack(g)
      [] k = 6 -> BotLoot(g)
      [] k = 7 -> BotChase(g)
      [] k = 8 -> BotExitFar(g)
      [] OTHER -> BotExplore(g)

RECURSIVE FirstPlan(_, _, _)
FirstPlan(g, k, n) ==
    IF k > n THEN Plan("wait", 0, 0, <<>>, "wait")
    ELSE Bind(BotRule(g, k),
              LAMBDA r : IF r.kind # "none" THEN r ELSE FirstPlan(g, k + 1, n))

bot_choose_action(g) ==
    IF g.state # "playing" \/ ~is_alive(g.player)
    THEN Plan("wait", 0, 0, <<>>, "idle")
    ELSE FirstPlan(g, 1, 9)

---------------------------------------------------------------------------
(* One tick of the game, as a function of the game record *)

\* The game as a record: the fields of Game the engine reads and writes, and
\* the history of the command being executed (hits, elog, phase, pfx, pdecays).
G == [map |-> map, player |-> player, enemies |-> enemies, state |-> state,
      items |-> items, inventory |-> inventory, exit |-> exit, visible |-> visible,
      menu_tier |-> menu_tier, turn |-> turn, won |-> won, aimed |-> aimed,
      run_items_used |-> run_items_used,
      hits |-> <<>>, elog |-> NoElog(Len(enemies)), phase |-> FALSE,
      pfx |-> player.effects, pdecays |-> 0]

\* The field of view recomputed with explored overwritten by it.
RecomputeFovForgetting(g) ==
    Bind(FovCells(g.map, g.player.x, g.player.y), LAMBDA vis :
        [g EXCEPT !.visible = vis, !.map.explored = vis])

recompute_fov(g) ==
    Bind(FovCells(g.map, g.player.x, g.player.y), LAMBDA vis :
        [g EXCEPT !.visible = vis, !.map.explored = @ \cup vis])

\* "_decay_effects(self.player)" at the end of a turn; pfx keeps the player's
\* effects as the enemy phase left them.
DecayPlayer(g) ==
    [g EXCEPT !.pfx = g.player.effects, !.player = _decay_effects(@), !.pdecays = @ + 1]

\* "self.enemy_turns(); self.turn += 1"
EnemiesAndTurn(g, rs) ==
    Bind(enemy_turns(g, rs), LAMBDA g1 :
        [g1 EXCEPT !.turn = @ + 1, !.pfx = g1.player.effects])

\* handle_player_action(key) for a direction key or "." (dx = dy = 0 is the wait
\* key): the function returns True for both, whether or not the player moved.
handle_player_action(g, dx, dy) ==
    IF dx = 0 /\ dy = 0 THEN [taken |-> TRUE, g |-> g]
    ELSE [taken |-> TRUE, g |-> move_entity(g, 0, dx, dy)]

\* The manual player action of Game.run (both in its outer loop and on a
\* movement key inside its autoplay loop).
ConsoleTurn(g, dx, dy, rs) ==
    Bind(handle_player_action(g, dx, dy), LAMBDA h :
        recompute_fov(IF h.taken /\ h.g.state = "playing"
                      THEN EnemiesAndTurn(h.g, rs) ELSE h.g))

\* The U key in the outer loop of Game.run: handle_player_action("U") returns
\* what use_potion returns.
ConsolePotionTurn(g, rs) ==
    Bind(use_potion(g), LAMBDA u :
        recompute_fov(IF u.ok /\ u.g.state = "playing"
                      THEN EnemiesAndTurn(u.g, rs) ELSE u.g))

\* Gameplay input of GuiApp.on_key: "." or a direction key.
GuiTurn(g, dx, dy, rs) ==
    Bind(IF dx = 0 /\ dy = 0 THEN g ELSE move_entity(g, 0, dx, dy), LAMBDA g1 :
        IF g1.state = "playing"
        THEN recompute_fov(DecayPlayer(EnemiesAndTurn(g1, rs)))
        ELSE g1)

\* The U key of GuiApp.on_key.
GuiPotionTurn(g, rs) ==
    LET u == use_potion(g)
    IN  IF u.ok /\ u.g.state = "playing"
        THEN recompute_fov(EnemiesAndTurn(u.g, rs))
        ELSE u.g

\* auto_tick(): plan is what bot_choose_action returned.
auto_tick(g, rs) ==
    IF g.state # "playing" \/ ~is_alive(g.player) THEN g
    ELSE Bind(bot_choose_action(g), LAMBDA plan :
         Bind(IF plan.kind = "move" THEN move_entity(g, 0, plan.dx, plan.dy) ELSE g,
              LAMBDA g1 :
                 LET consumed == plan.kind \in {"wait", "move"}
                 IN  recompute_fov(IF consumed THEN DecayPlayer(EnemiesAndTurn(g1, rs))
                                   ELSE g1)))

---------------------------------------------------------------------------
(* new_game *)

EmptyMap(w, h) ==
    [w |-> w, h |-> h, tiles |-> {}, explored |-> {}, gen_type |-> "caves",
     rooms |-> <<>>, room_centers |-> <<>>, doors |-> [c \in {} |-> [open |-> FALSE, locked |-> FALSE]]]

Door(open, locked) == [open |-> open, locked |-> locked]

Item(x, y, kind) == [x |-> x, y |-> y, kind |-> kind]

\* random_enemy() for the role drawn, with the tier bonus new_game adds to elites
\* (ENEMY_TYPES: Goblin 8/3, Archer 6/2, Priest 7/2, Troll 14/5, Shaman 9/3).
Enemy(x, y, name, tier) ==
    LET hp == CASE name = "Goblin" -> 8 [] name = "Archer" -> 6 [] name = "Priest" -> 7
                [] name = "Troll" -> 14 [] OTHER -> 9
        pw == CASE name = "Goblin" -> 3 [] name = "Archer" -> 2 [] name = "Priest" -> 2
                [] name = "Troll" -> 5 [] OTHER -> 3
        bonus == IF tier >= 2 /\ name \in {"Troll", "Shaman"} THEN 1 ELSE 0
    IN  [Entity(x, y, name, hp, pw) EXCEPT !.power = pw + bonus]

\* What Map.generate and the placement steps of new_game produce for a seed.  The
\* dungeons are small (the generator itself is GenNext below); each has a wall
\* border and is connected.
\*   seed 1, tier 3:      seed 2, tier 1:        seed 3, tier 2:
\*     ######               #######                ######
\*     #.s@p#               #@pk.a#                #@T+P#
\*     #sX..#               ##L.s##                #X.#p#
\*     ######               #######                ######
\*   s shaman, a archer, T troll, P priest, X exit, p potion, k key,
\*   L locked door, + closed door
\*   seed 4, tier 1: a goblin and a potion placed on the locked door of the
\*   exit's room (place_entity_random_floor and the loot scatter take any
\*   walkable cell, a door's included).
\*     ######
\*     #@g.X#     g stands on L, over a potion
\*     #+####
\*     #k####
\*     ######
Dungeon(sd) ==
    CASE sd = 1 ->
        [tier |-> 3,
         map |-> [EmptyMap(6, 4) EXCEPT !.tiles = (1 .. 4) \X (1 .. 2)],
         player |-> <<3, 1>>,
         enemies |-> <<Enemy(1, 2, "Shaman", 3), Enemy(2, 1, "Shaman", 3)>>,
         exit |-> <<2, 2>>,
         items |-> <<Item(4, 1, "potion")>>]
      [] sd = 2 ->
        [tier |-> 1,
         map |-> [EmptyMap(7, 4) EXCEPT
                    !.tiles = ((1 .. 5) \X {1}) \cup ((2 .. 4) \X {2}),
                    !.doors = (<<2, 2>> :> Door(FALSE, TRUE))],
         player |-> <<1, 1>>,
         enemies |-> <<Enemy(5, 1, "Archer", 1), Enemy(4, 2, "Shaman", 1)>>,
         exit |-> <<3, 2>>,
         items |-> <<Item(2, 1, "potion"), Item(3, 1, "key")>>]
      [] sd = 4 ->
        [tier |-> 1,
         map |-> [EmptyMap(6, 5) EXCEPT
                    !.tiles = ((1 .. 4) \X {1}) \cup ({1} \X (2 .. 3)),
                    !.doors = (<<2, 1>> :> Door(FALSE, TRUE))
                              @@ (<<1, 2>> :> Door(FALSE, FALSE))],
         player |-> <<1, 1>>,
         enemies |-> <<Enemy(2, 1, "Goblin", 1)>>,
         exit |-> <<4, 1>>,
         items |-> <<Item(2, 1, "potion"), Item(1, 3, "key")>>]
      [] OTHER ->
        [tier |-> 2,
         map |-> [EmptyMap(6, 4) EXCEPT
                    !.tiles = ((1 .. 4) \X (1 .. 2)) \ {<<3, 2>>},
                    !.doors = (<<3, 1>> :> Door(FALSE, FALSE))],
         player |-> <<1, 1>>,
         enemies |-> <<Enemy(2, 1, "Troll", 2), Enemy(4, 1, "Priest", 2)>>,
         exit |-> <<1, 2>>,
         items |-> <<Item(4, 2, "potion")>>]

\* The game record new_game leaves: a fresh player (hp 20, power 5), the enemies,
\* exit and loot placed, turn 1, state playing, visibility recomputed.
new_game(g, sd) ==
    Bind(Dungeon(sd), LAMBDA d :
        recompute_fov(
          [g EXCEPT !.map = d.map,
                    !.visible = {},
                    !.turn = 1,
                    !.player = Entity(d.player[1], d.player[2], "Player", 20, 5),
                    !.enemies = d.enemies,
                    !.exit = d.exit,
                    !.items = d.items,
                    !.inventory = [potion |-> 0, key |-> 0],
                    !.state = "playing",
                    !.won = FALSE,
                    !.run_items_used = 0,
                    !.aimed = {},
                    !.elog = NoElog(Len(d.enemies))]))

\* Game.__init__
Blank ==
    [map |-> EmptyMap(DEFAULT_W, DEFAULT_H), player |-> Entity(0, 0, "Player", 20, 5),
     enemies |-> <<>>, state |-> "menu", items |-> <<>>,
     inventory |-> [potion |-> 0, key |-> 0], exit |-> NoExit, visible |-> {},
     menu_tier |-> 1, turn |-> 0, won |-> FALSE, aimed |-> {}, run_items_used |-> 0,
     hits |-> <<>>, elog |-> NoElog(0), phase |-> FALSE, pfx |-> NoEffects, pdecays |-> 0]

---------------------------------------------------------------------------
(* Commands *)

\* What the last command was and did (history, rewritten by every command):
\* op and path name the command and the front-end path it took, (dx, dy) its
\* direction, invalid whether it was a move the engine has to reject, phase
\* whether the enemy phase ran, pfx the player's effects as the enemy phase left
\* them, pdecays how often the player's effects were decayed, hits the hits made,
\* elog what each enemy did, rule the planner's rule, free the number of manual
\* moves since new_game that consumed no turn.
Last(op, path, dx, dy, invalid, g, rule) ==
    [op |-> op, path |-> path, dx |-> dx, dy |-> dy, invalid |-> invalid,
     phase |-> g.phase, pfx |-> g.pfx, pdecays |-> g.pdecays, hits |-> g.hits,
     elog |-> g.elog, rule |-> rule,
     free |-> IF op = "restart" THEN 0
              ELSE IF op \in {"move", "wait"} /\ ~g.phase THEN last.free + 1
              ELSE last.free]

NoLast ==
    [op |-> "init", path |-> "none", dx |-> 0, dy |-> 0, invalid |-> FALSE,
     phase |-> FALSE, pfx |-> NoEffects, pdecays |-> 0, hits |-> <<>>,
     elog |-> NoElog(0), rule |-> "none", free |-> 0]

\* A move the engine has to reject: the target is out of bounds or a wall, or a
\* closed locked door while the player holds no key.
InvalidMove(g, dx, dy) ==
    LET nx == g.player.x + dx
        ny == g.player.y + dy
    IN  \/ ~in_bounds(g.map, nx, ny)
        \/ ~is_walkable(g.map, nx, ny)
        \/ (/\ ClosedDoor(g.map, nx, ny)
            /\ g.map.doors[<<nx, ny>>].locked
            /\ g.inventory.key <= 0)

\* The rng draws an enemy phase may consume, per enemy: whether and where it
\* wanders (drawn only in default movement without line of sight to the player,
\* which no enemy's turn changes and a shaman never reaches) and the shaman's
\* choice of ally.
DrawsOf(g, i) ==
    LET e == g.enemies[i]
        W == IF /\ is_alive(e)
                /\ e.name # "Shaman"
                /\ ~has_los(g.map, e.x, e.y, g.player.x, g.player.y, ENEMY_LOS_RADIUS)
             THEN 0 .. 5 ELSE {0}
        K == IF e.name = "Shaman" THEN 1 .. Max2(1, Len(g.enemies) - 1) ELSE {1}
    IN  {[wander |-> w, pick |-> k] : w \in W, k \in K}

RECURSIVE DrawSeqs(_, _)
DrawSeqs(g, i) ==
    IF i > Len(g.enemies) THEN {<<>>}
    ELSE {<<d>> \o r : d \in DrawsOf(g, i), r \in DrawSeqs(g, i + 1)}

\* The draws for the phase that follows the player's step (dx, dy).
Draws(g, dx, dy) ==
    DrawSeqs(IF dx = 0 /\ dy = 0 THEN g ELSE move_entity(g, 0, dx, dy), 1)

MoveKeys == {<<0, -1>>, <<0, 1>>, <<-1, 0>>, <<1, 0>>}

GameKeys == MoveKeys \cup {<<0, 0>>}

\* Assign the game record, the front-end fields and the history.
CommitGame(g, auto, lp, l) ==
    /\ map' = g.map
    /\ player' = g.player
    /\ enemies' = g.enemies
    /\ state' = g.state
    /\ items' = g.items
    /\ inventory' = g.inventory
    /\ exit' = g.exit
    /\ visible' = g.visible
    /\ menu_tier' = g.menu_tier
    /\ turn' = g.turn
    /\ won' = g.won
    /\ run_items_used' = g.run_items_used
    /\ aimed' = g.aimed
    /\ auto_play' = auto
    /\ loop' = lp
    /\ last' = l
    /\ UNCHANGED <<ui, seed, gen>>

Commit(g, auto, lp, l) == CommitGame(g, auto, lp, l) /\ EnvUnchanged

\* Where Game.run stands after an iteration of its autoplay loop.
LoopAfter(auto, st) == IF auto /\ st \in {"playing", "paused"} THEN "auto" ELSE "outer"

\* Game.run is in its autoplay loop, or about to enter it.
InAutoLoop == loop = "auto" \/ (loop = "outer" /\ state = "playing" /\ auto_play)

NewGameOf(g, sd) == [new_game(g, sd) EXCEPT !.menu_tier = Dungeon(sd).tier]

(* Console: Game.run *)

\* ENTER in the menu.
ConsoleMenuEnter ==
    /\ ui = "console" /\ state = "menu"
    /\ Commit(NewGameOf(G, seed), auto_play, "outer",
              Last("restart", "console", 0, 0, FALSE, G, "none"))

\* A direction key or "." in the manual input path.
ConsoleManual(k) ==
    /\ ui = "console" /\ state = "playing" /\ ~InAutoLoop
    /\ turn < MaxTurn
    /\ \E rs \in Draws(G, k[1], k[2]) :
          \E g1 \in {ConsoleTurn(G, k[1], k[2], rs)} :
              Commit(g1, auto_play, "outer",
                     Last(IF k = <<0, 0>> THEN "wait" ELSE "move", "console", k[1], k[2],
                          k # <<0, 0>> /\ InvalidMove(G, k[1], k[2]), g1, "none"))

\* U in the manual input path.
ConsolePotion ==
    /\ ui = "console" /\ state = "playing" /\ ~InAutoLoop
    /\ turn < MaxTurn
    /\ \E rs \in Draws(G, 0, 0) :
          \E g1 \in {ConsolePotionTurn(G, rs)} :
              Commit(g1, auto_play, "outer", Last("potion", "console", 0, 0, FALSE, g1, "none"))

\* P in the manual input path; P or ESC in the paused branch.
ConsolePause ==
    /\ ui = "console" /\ ~InAutoLoop
    /\ state \in {"playing", "paused"}
    /\ Commit([G EXCEPT !.state = IF state = "playing" THEN "paused" ELSE "playing"],
              auto_play, "outer", Last("pause", "console", 0, 0, FALSE, G, "none"))

\* R in the manual input path, the paused branch or the game_over branch.
ConsoleRestart ==
    /\ ui = "console" /\ ~InAutoLoop
    /\ state \in {"playing", "paused", "game_over"}
    /\ Commit(NewGameOf(G, seed), auto_play, "outer",
              Last("restart", "console", 0, 0, FALSE, G, "none"))

\* A in the manual input path or the paused branch.
ConsoleToggleAuto ==
    /\ ui = "console" /\ ~InAutoLoop
    /\ state \in {"playing", "paused"}
    /\ Commit(G, ~auto_play, "outer", Last("auto", "console", 0, 0, FALSE, G, "none"))

\* A direction key or "." inside the autoplay loop: autoplay off, a manual turn,
\* and the loop is left.
ConsoleAutoManual(k) ==
    /\ ui = "console" /\ InAutoLoop
    /\ turn < MaxTurn
    /\ state = "playing" \/ last.free < MaxFree
    /\ \E rs \in Draws(G, k[1], k[2]) :
          \E g1 \in {ConsoleTurn(G, k[1], k[2], rs)} :
              Commit(g1, FALSE, "outer",
                     Last(IF k = <<0, 0>> THEN "wait" ELSE "move", "console_auto", k[1], k[2],
                          k # <<0, 0>> /\ InvalidMove(G, k[1], k[2]), g1, "none"))

\* The bot tick that ends an iteration of the autoplay loop, from game g0.
ConsoleTickFrom(g0, op) ==
    \E plan \in {bot_choose_action(g0)} :
       \E rs \in Draws(g0, plan.dx, plan.dy) :
          \E g1 \in {auto_tick(g0, rs)} :
              Commit(g1, auto_play, LoopAfter(auto_play, g1.state),
                     Last(op, "auto", plan.dx, plan.dy,
                          plan.kind = "move" /\ InvalidMove(g0, plan.dx, plan.dy),
                          g1, plan.rule))

\* P inside the autoplay loop: pausing skips the bot tick of the iteration,
\* unpausing is followed by it.
ConsoleAutoPause ==
    /\ ui = "console" /\ InAutoLoop
    /\ IF state = "playing"
       THEN Commit([G EXCEPT !.state = "paused"], auto_play, "auto",
                   Last("pause", "console_auto", 0, 0, FALSE, G, "none"))
       ELSE /\ turn < MaxTurn
            /\ ConsoleTickFrom([G EXCEPT !.state = "playing"], "tick")

\* R inside the autoplay loop: new_game, then the bot tick of the iteration.
ConsoleAutoRestart ==
    /\ ui = "console" /\ InAutoLoop
    /\ ConsoleTickFrom(NewGameOf(G, seed), "restart")

\* An iteration of the autoplay loop without a key: one bot tick.
ConsoleAutoTick ==
    /\ ui = "console" /\ InAutoLoop /\ state = "playing"
    /\ turn < MaxTurn
    /\ ConsoleTickFrom(G, "tick")

(* GUI: GuiApp.on_key and GuiApp._auto_tick *)

\* P.
GuiPause ==
    /\ ui = "gui"
    /\ LET st == IF state = "paused" THEN "playing"
                 ELSE IF state \in {"playing", "game_over"} THEN "paused"
                 ELSE state
       IN  Commit([G EXCEPT !.state = st], auto_play, loop,
                  Last("pause", "gui", 0, 0, FALSE, G, "none"))

\* R, paused or not.
GuiRestart ==
    /\ ui = "gui"
    /\ Commit(NewGameOf(G, seed), auto_play, loop,
              Last("restart", "gui", 0, 0, FALSE, G, "none"))

\* A (ignored while paused).
GuiToggleAuto ==
    /\ ui = "gui" /\ state # "paused"
    /\ Commit(G, ~auto_play, loop, Last("auto", "gui", 0, 0, FALSE, G, "none"))

\* U (ignored while paused).
GuiPotion ==
    /\ ui = "gui" /\ state # "paused"
    /\ turn < MaxTurn
    /\ \E rs \in Draws(G, 0, 0) :
          \E g1 \in {GuiPotionTurn(G, rs)} :
              Commit(g1, auto_play, loop, Last("potion", "gui", 0, 0, FALSE, g1, "none"))

\* A direction key or "." (ignored while paused): autoplay off, then the turn.
GuiManual(k) ==
    /\ ui = "gui" /\ state # "paused"
    /\ turn < MaxTurn
    /\ state = "playing" \/ last.free < MaxFree
    /\ \E rs \in Draws(G, k[1], k[2]) :
          \E g1 \in {GuiTurn(G, k[1], k[2], rs)} :
              Commit(g1, FALSE, loop,
                     Last(IF k = <<0, 0>> THEN "wait" ELSE "move", "gui", k[1], k[2],
                          k # <<0, 0>> /\ InvalidMove(G, k[1], k[2]), g1, "none"))

\* The autoplay timer fires while playing.
GuiAutoTick ==
    /\ ui = "gui" /\ auto_play /\ state = "playing"
    /\ turn < MaxTurn
    /\ \E plan \in {bot_choose_action(G)} :
          \E rs \in Draws(G, plan.dx, plan.dy) :
             \E g1 \in {auto_tick(G, rs)} :
                 Commit(g1, auto_play, loop,
                        Last("tick", "auto", plan.dx, plan.dy,
                             plan.kind = "move" /\ InvalidMove(G, plan.dx, plan.dy),
                             g1, plan.rule))

\* The autoplay timer fires after the run ended: the auto-restart (on by default).
GuiAutoRestart ==
    /\ ui = "gui" /\ auto_play /\ state \in {"victory", "game_over"}
    /\ Commit(NewGameOf(G, seed), auto_play, loop,
              Last("restart", "gui_auto", 0, 0, FALSE, G, "none"))

---------------------------------------------------------------------------
(* The game under either front end *)

\* The generator's position and locals: pc is where Map.generate or the placement
\* stands, m the map being built, (x, y), carved and attempts the locals of the
\* cave walk, n_rooms and attempts those of the room loop, order, i, path, j and
\* prev_in_room (0 for None) those of the corridor loops.
GenRec(pc, m) ==
    [pc |-> pc, m |-> m, x |-> 0, y |-> 0, carved |-> 0, attempts |-> 0, n_rooms |-> 0,
     order |-> <<>>, i |-> 0, path |-> <<>>, j |-> 0, prev_in_room |-> 0]

NoGen == GenRec("idle", EmptyMap(DEFAULT_W, DEFAULT_H))

\* Game.__init__, and for the GUI the new_game GuiApp.__init__ runs.
Init ==
    /\ ui \in {"console", "gui"}
    /\ seed \in 1 .. NumSeeds
    /\ gen = NoGen
    /\ last = NoLast
    /\ auto_play = FALSE
    /\ loop = "outer"
    /\ EnvInit
    /\ \E g \in {IF ui = "gui" THEN NewGameOf(Blank, seed) ELSE Blank} :
           /\ map = g.map
           /\ player = g.player
           /\ enemies = g.enemies
           /\ state = g.state
           /\ items = g.items
           /\ inventory = g.inventory
           /\ exit = g.exit
           /\ visible = g.visible
           /\ menu_tier = g.menu_tier
           /\ turn = g.turn
           /\ won = g.won
           /\ run_items_used = g.run_items_used
           /\ aimed = g.aimed

Next ==
    \/ ConsoleMenuEnter
    \/ \E k \in GameKeys : ConsoleManual(k)
    \/ ConsolePotion
    \/ ConsolePause
    \/ ConsoleRestart
    \/ ConsoleToggleAuto
    \/ \E k \in GameKeys : ConsoleAutoManual(k)
    \/ ConsoleAutoPause
    \/ ConsoleAutoRestart
    \/ ConsoleAutoTick
    \/ GuiPause
    \/ GuiRestart
    \/ GuiToggleAuto
    \/ GuiPotion
    \/ \E k \in GameKeys : GuiManual(k)
    \/ GuiAutoTick
    \/ GuiAutoRestart

Spec == Init /\ [][Next]_vars

---------------------------------------------------------------------------
(* The game continued from a save file *)

\* The effects mappings with, independently for each name of names, the effect
\* absent or stored as one of choices[name].
RECURSIVE EffectCombos(_, _)
EffectCombos(names, choices) ==
    IF names = {} THEN {NoEffects}
    ELSE LET n == CHOOSE x \in names : TRUE
             rest == EffectCombos(names \ {n}, choices)
         IN  rest \cup {(n :> c) @@ r : c \in choices[n], r \in rest}

Eff(dur, val) == [dur |-> dur, val |-> val]

\* The save files explored: a 3x3 room, the player in a corner with a goblin
\* beside it and an archer two tiles below, each with a choice of stored effects.
\*     #####
\*     #@g.#
\*     #...#
\*     #a..#
\*     #####
SaveFiles ==
    LET PFx == EffectCombos({"Shield", "Hex"},
                   [Shield |-> {Eff(2, 3), Eff(2, 10)}, Hex |-> {Eff(2, 1), Eff(2, 6)}])
        GFx == EffectCombos({"Frenzy", "Shield"},
                   [Frenzy |-> {Eff(2, 1)}, Shield |-> {Eff(2, 3)}])
        AFx == EffectCombos({"Aim", "Frenzy"},
                   [Aim |-> {Eff(1, 20)}, Frenzy |-> {Eff(2, 1)}])
    IN  {[state |-> "playing", turn |-> 1, tier |-> 1,
          map |-> [EmptyMap(5, 5) EXCEPT !.tiles = (1 .. 3) \X (1 .. 3)],
          player |-> [Entity(1, 1, "Player", 20, 5) EXCEPT !.effects = pf],
          enemies |-> <<[Enemy(2, 1, "Goblin", 1) EXCEPT !.effects = gf],
                        [Enemy(1, 3, "Archer", 1) EXCEPT !.effects = af]>>,
          exit |-> NoExit,
          items |-> <<>>,
          inventory |-> [potion |-> 0, key |-> 0]] : pf \in PFx, gf \in GFx, af \in AFx}

\* data.get(k, dflt)
Get(data, k, dflt) == IF k \in DOMAIN data THEN data[k] ELSE dflt

\* The dictionary save_game writes for game g seeded with sd: the enemies
\* alive, the explored cells with the map, the seed and not the generator.
save_game(g, sd) ==
    [state |-> g.state, turn |-> g.turn, seed |-> sd, tier |-> g.menu_tier,
     map |-> g.map, player |-> g.player,
     enemies |-> SelectSeq(g.enemies, is_alive),
     exit |-> g.exit, items |-> g.items, inventory |-> g.inventory,
     items_used |-> g.run_items_used]

\* load_game once the file is parsed into the dictionary data, which holds a
\* "player": every field is taken as the file gives it, an absent one from
\* its default.  (History: an archer stored with an Aim is one whose previous
\* turn started it.)
load_game(g, data) ==
    Bind(Get(data, "enemies", <<>>), LAMBDA es :
    recompute_fov(
      [g EXCEPT !.state = Get(data, "state", "paused"),
                !.turn = Get(data, "turn", 1),
                !.menu_tier = Get(data, "tier", 1),
                !.map = Get(data, "map", g.map),
                !.player = data.player,
                !.enemies = es,
                !.exit = Get(data, "exit", NoExit),
                !.items = Get(data, "items", <<>>),
                !.inventory = Get(data, "inventory", [potion |-> 0, key |-> 0]),
                !.won = FALSE,
                !.run_items_used = Get(data, "items_used", 0),
                !.aimed = {i \in 1 .. Len(es) : HasEffect(es[i], "Aim")},
                !.elog = NoElog(Len(es))]))

\* The assignments load_game has made when data["player"] raises KeyError.
LoadUntilPlayer(g, data) ==
    [g EXCEPT !.state = Get(data, "state", "paused"),
              !.turn = Get(data, "turn", 1),
              !.menu_tier = Get(data, "tier", 1),
              !.map = Get(data, "map", g.map)]

\* load_game(filename) for the file f.  ret: "ok" (returns True), "failed"
\* (logs and returns False) or "raised" (an exception leaves load_game);
\* g: the game as load_game leaves it; seeded: self.seed and self.rng were
\* assigned.  open() or json.load() failing is caught; a parsed value that is
\* no dictionary raises at its first .get, a dictionary without "player" at
\* data["player"].
load_file(g, f) ==
    IF f.kind \in {"missing", "unparsable"} THEN [ret |-> "failed", g |-> g, seeded |-> FALSE]
    ELSE IF f.kind = "notdict" THEN [ret |-> "raised", g |-> g, seeded |-> FALSE]
    ELSE IF "player" \notin DOMAIN f.data
         THEN [ret |-> "raised", g |-> LoadUntilPlayer(g, f.data), seeded |-> TRUE]
    ELSE [ret |-> "ok", g |-> load_game(g, f.data), seeded |-> TRUE]


\* The GUI after a save file was loaded.
InitLoaded ==
    /\ ui = "gui"
    /\ seed = 1
    /\ gen = NoGen
    /\ last = NoLast
    /\ auto_play = FALSE
    /\ loop = "outer"
    /\ EnvInit
    /\ \E data \in SaveFiles :
          \E g \in {load_game(Blank, data)} :
              /\ map = g.map
              /\ player = g.player
              /\ enemies = g.enemies
              /\ state = g.state
              /\ items = g.items
              /\ inventory = g.inventory
              /\ exit = g.exit
              /\ visible = g.visible
              /\ menu_tier = g.menu_tier
              /\ turn = g.turn
              /\ won = g.won
              /\ run_items_used = g.run_items_used
              /\ aimed = g.aimed

NextCombat == \E k \in GameKeys : GuiManual(k)

\* Save files with a priest and wounded enemies: a 4x3 room, the player in a
\* corner with a goblin beside it, a troll and a priest in the far corner, each
\* enemy stored at full hp or wounded.
\*     ######
\*     #@g..#
\*     #....#
\*     #..TP#
\*     ######
PriestSaves ==
    {[state |-> "playing", turn |-> 1, tier |-> 1,
      map |-> [EmptyMap(6, 5) EXCEPT !.tiles = (1 .. 4) \X (1 .. 3)],
      player |-> Entity(1, 1, "Player", 20, 5),
      enemies |-> <<[Enemy(2, 1, "Goblin", 1) EXCEPT !.hp = gh],
                    [Enemy(4, 3, "Priest", 1) EXCEPT !.hp = ph],
                    [Enemy(3, 3, "Troll", 1) EXCEPT !.hp = th]>>,
      exit |-> NoExit,
      items |-> <<>>,
      inventory |-> [potion |-> 0, key |-> 0]] : gh \in {8, 3}, ph \in {7, 6}, th \in {14, 4}}

\* The GUI after one of the priest save files was loaded.
InitPriest ==
    /\ ui = "gui"
    /\ seed = 1
    /\ gen = NoGen
    /\ last = NoLast
    /\ auto_play = FALSE
    /\ loop = "outer"
    /\ EnvInit
    /\ \E data \in PriestSaves :
          \E g \in {load_game(Blank, data)} :
              /\ map = g.map
              /\ player = g.player
              /\ enemies = g.enemies
              /\ state = g.state
              /\ items = g.items
              /\ inventory = g.inventory
              /\ exit = g.exit
              /\ visible = g.visible
              /\ menu_tier = g.menu_tier
              /\ turn = g.turn
              /\ won = g.won
              /\ run_items_used = g.run_items_used
              /\ aimed = g.aimed

SpecPriest == InitPriest /\ [][NextCombat]_vars

---------------------------------------------------------------------------
(* Two runs of the GUI side by side, each with its own generator *)

\* A stand-in for the Mersenne Twister of random.Random(sd): the number, in
\* 0 .. 9, that a generator seeded with sd gives after n earlier draws.
Rand(sd, n) == (sd + n * 7 + ((n * n * sd) % 3)) % 10

\* The draws new_game takes for the map and the placements, counted as one.
NewGameDraws == 1

\* new_seed always reading the clock.
NewSeedFromClock(menu_seed_random, menu_seed_value, clock) == clock

\* "self.seed = ..." of new_game: the clock when the menu asks for a random
\* seed, else the seed of the menu.
new_seed(menu_seed_random, menu_seed_value, clock) ==
    IF menu_seed_random THEN clock ELSE menu_seed_value

\* The generator after new_game: random.Random(self.seed), then its draws.
RngAfterNewGame(sd) == [seed |-> sd, n |-> NewGameDraws]

\* What an enemy's turn draws from generator r when it draws: rng.random() < 0.3
\* and then rng.choice(dirs) for its wandering, rng.choice(allies_near) for a
\* shaman's frenzy.
RngDraw(r) ==
    [wander |-> IF Rand(r.seed, r.n) < 3 THEN (Rand(r.seed, r.n + 1) % 5) + 1 ELSE 0,
     pick   |-> Rand(r.seed, r.n) + 1]

\* How many draws the turn of enemy i took that led from g to g2: one for a
\* frenzy, one or two for a default movement without line of sight.
RngUsed(g, i, g2, r) ==
    LET e == g.enemies[i]
    IN  IF g2.elog[i].ev = "frenzy" THEN 1
        ELSE IF /\ g2.elog[i].ev = "none"
                /\ ~has_los(g.map, e.x, e.y, g.player.x, g.player.y, ENEMY_LOS_RADIUS)
             THEN IF Rand(r.seed, r.n) < 3 THEN 2 ELSE 1
        ELSE 0

\* enemy_turns() drawing from generator r: the draws of each enemy in turn, and
\* the generator afterwards.
RECURSIVE RngDraws(_, _, _, _)
RngDraws(g, i, r, rs) ==
    IF i > Len(g.enemies) THEN [rs |-> rs, rng |-> r]
    ELSE IF ~is_alive(g.enemies[i]) \/ ~is_alive(g.player)
         THEN RngDraws(g, i + 1, r, Append(rs, [wander |-> 0, pick |-> 1]))
    ELSE Bind(EnemyTurn(g, i, RngDraw(r)), LAMBDA g2 :
              RngDraws(g2, i + 1, [r EXCEPT !.n = @ + RngUsed(g, i, g2, r)],
                       Append(rs, RngDraw(r))))

\* Gameplay input of GuiApp.on_key (a direction key or "."; ignored while
\* paused) with the game's own generator.
RngGuiKey(g, r, k) ==
    IF g.state = "paused" THEN [g |-> g, rng |-> r]
    ELSE Bind(IF k = <<0, 0>> THEN g ELSE move_entity(g, 0, k[1], k[2]), LAMBDA g1 :
         Bind(RngDraws(g1, 1, r, <<>>), LAMBDA d :
              [g   |-> GuiTurn(g, k[1], k[2], d.rs),
               rng |-> IF g1.state = "playing" THEN d.rng ELSE r]))

\* The fields of the game record that outlive a command, and the record with
\* the history of a command about to run.
Core(g) ==
    [map |-> g.map, player |-> g.player, enemies |-> g.enemies, state |-> g.state,
     items |-> g.items, inventory |-> g.inventory, exit |-> g.exit, visible |-> g.visible,
     menu_tier |-> g.menu_tier, turn |-> g.turn, won |-> g.won, aimed |-> g.aimed,
     run_items_used |-> g.run_items_used]

Live(c) ==
    c @@ [hits |-> <<>>, elog |-> NoElog(Len(c.enemies)), phase |-> FALSE,
          pfx |-> c.player.effects, pdecays |-> 0]

\* The clock values new_game may read.
TwinClocks == {1, 2}

\* The turn at which the two runs stop taking gameplay keys.
TwinMaxTurn == 4

\* Assign the first run from g and r, the second from tw.
TwinCommit(g, r, sd, tw, l) ==
    /\ map' = g.map
    /\ player' = g.player
    /\ enemies' = g.enemies
    /\ state' = g.state
    /\ items' = g.items
    /\ inventory' = g.inventory
    /\ exit' = g.exit
    /\ visible' = g.visible
    /\ menu_tier' = g.menu_tier
    /\ turn' = g.turn
    /\ won' = g.won
    /\ run_items_used' = g.run_items_used
    /\ aimed' = g.aimed
    /\ rng' = r
    /\ seed' = sd
    /\ twin' = tw
    /\ last' = l
    /\ UNCHANGED <<ui, auto_play, gen, loop, disk, hot, tk>>

\* Both programs start with the same menu settings, each reading its own clock.
InitTwin ==
    /\ ui = "gui"
    /\ gen = NoGen
    /\ last = NoLast
    /\ auto_play = FALSE
    /\ loop = "outer"
    /\ disk = NoDisk /\ hot = NoHot /\ tk = NoTk
    /\ \E random \in BOOLEAN, value \in 1 .. NumSeeds, ca \in TwinClocks, cb \in TwinClocks :
          /\ random => value = 1
          /\ seed = new_seed(random, value, ca)
          /\ rng = RngAfterNewGame(seed)
          /\ twin = [on |-> TRUE, random |-> random, value |-> value,
                     seed |-> new_seed(random, value, cb),
                     rng |-> RngAfterNewGame(new_seed(random, value, cb)),
                     g |-> Core(NewGameOf(Blank, new_seed(random, value, cb)))]
    /\ \E g \in {NewGameOf(Blank, seed)} :
           /\ map = g.map
           /\ player = g.player
           /\ enemies = g.enemies
           /\ state = g.state
           /\ items = g.items
           /\ inventory = g.inventory
           /\ exit = g.exit
           /\ visible = g.visible
           /\ menu_tier = g.menu_tier
           /\ turn = g.turn
           /\ won = g.won
           /\ run_items_used = g.run_items_used
           /\ aimed = g.aimed

\* The same gameplay key in both runs.
TwinKey(k) ==
    /\ ui = "gui" /\ twin.on
    /\ turn < TwinMaxTurn /\ twin.g.turn < TwinMaxTurn
    /\ state = "playing" \/ last.free < MaxFree
    /\ \E a \in {RngGuiKey(G, rng, k)}, b \in {RngGuiKey(Live(twin.g), twin.rng, k)} :
          TwinCommit(a.g, a.rng, seed, [twin EXCEPT !.g = Core(b.g), !.rng = b.rng],
                     Last(IF k = <<0, 0>> THEN "wait" ELSE "move", "gui", k[1], k[2],
                          k # <<0, 0>> /\ InvalidMove(G, k[1], k[2]), a.g, "none"))

\* P in both runs.
TwinPause ==
    /\ ui = "gui" /\ twin.on
    /\ LET Toggle(st) == IF st = "paused" THEN "playing"
                         ELSE IF st \in {"playing", "game_over"} THEN "paused"
                         ELSE st
       IN  TwinCommit([G EXCEPT !.state = Toggle(@)], rng, seed,
                      [twin EXCEPT !.g.state = Toggle(@)],
                      Last("pause", "gui", 0, 0, FALSE, G, "none"))

\* R in both runs: new_game in each, with its own reading of the clock.
TwinRestart ==
    /\ ui = "gui" /\ twin.on
    /\ \E ca \in TwinClocks, cb \in TwinClocks :
          \E sa \in {new_seed(twin.random, twin.value, ca)},
             sb \in {new_seed(twin.random, twin.value, cb)} :
              TwinCommit(NewGameOf(G, sa), RngAfterNewGame(sa), sa,
                         [twin EXCEPT !.seed = sb, !.rng = RngAfterNewGame(sb),
                                      !.g = Core(NewGameOf(Live(twin.g), sb))],
                         Last("restart", "gui", 0, 0, FALSE, G, "none"))

NextTwin ==
    \/ \E k \in GameKeys : TwinKey(k)
    \/ TwinPause
    \/ TwinRestart

SpecTwin == InitTwin /\ [][NextTwin]_vars

---------------------------------------------------------------------------
(* Saving and loading in the GUI *)

\* The saves and loads a behaviour makes, the turn up to which it plays, and
\* the seeds of its dungeons.
MaxSaves == 1

MaxLoads == 1

LoadMaxTurn == 3

LoadSeeds == {3, 4}

InitLoad ==
    /\ ui = "gui"
    /\ seed \in LoadSeeds
    /\ gen = NoGen
    /\ last = NoLast
    /\ auto_play = FALSE
    /\ loop = "outer"
    /\ EnvInit
    /\ \E g \in {NewGameOf(Blank, seed)} :
           /\ map = g.map
           /\ player = g.player
           /\ enemies = g.enemies
           /\ state = g.state
           /\ items = g.items
           /\ inventory = g.inventory
           /\ exit = g.exit
           /\ visible = g.visible
           /\ menu_tier = g.menu_tier
           /\ turn = g.turn
           /\ won = g.won
           /\ run_items_used = g.run_items_used
           /\ aimed = g.aimed

\* A gameplay key before the save or the load.
LoadPlay(k) == turn < LoadMaxTurn /\ disk.loads = 0 /\ GuiManual(k)

\* P before the load.
LoadPause == disk.loads = 0 /\ GuiPause

\* S while paused: save_game().
GuiSave ==
    /\ ui = "gui" /\ state = "paused"
    /\ disk.saves < MaxSaves
    /\ disk.loads = 0
    /\ disk' = [disk EXCEPT !.kind = "parsed", !.data = save_game(G, seed), !.saves = @ + 1]
    /\ last' = Last("save", "gui", 0, 0, FALSE, G, "none")
    /\ UNCHANGED <<ui, seed, menu_tier, state, turn, map, player, enemies, items, inventory,
                   exit, visible, auto_play, gen, won, run_items_used, aimed, loop,
                   rng, twin, hot, tk>>

\* Somebody else deletes, truncates or edits the save file.
TamperKinds == {"missing", "unparsable", "notdict", "noplayer", "nomap"}

Tamper(kind) ==
    /\ disk.kind = "parsed" /\ disk.loads = 0
    /\ "player" \in DOMAIN disk.data /\ "map" \in DOMAIN disk.data
    /\ disk' = CASE kind = "noplayer" ->
                       [disk EXCEPT !.data = [k \in DOMAIN disk.data \ {"player"} |-> disk.data[k]]]
                  [] kind = "nomap" ->
                       [disk EXCEPT !.data = [k \in DOMAIN disk.data \ {"map"} |-> disk.data[k]]]
                  [] OTHER -> [disk EXCEPT !.kind = kind, !.data = <<>>]
    /\ UNCHANGED <<ui, seed, menu_tier, state, turn, map, player, enemies, items, inventory,
                   exit, visible, auto_play, gen, last, won, run_items_used, aimed, loop,
                   rng, twin, hot, tk>>

\* The game after load_game() returned or raised: result r of load_file.
LoadCommit(r, path) ==
    /\ map' = r.g.map
    /\ player' = r.g.player
    /\ enemies' = r.g.enemies
    /\ state' = r.g.state
    /\ items' = r.g.items
    /\ inventory' = r.g.inventory
    /\ exit' = r.g.exit
    /\ visible' = r.g.visible
    /\ menu_tier' = r.g.menu_tier
    /\ turn' = r.g.turn
    /\ won' = r.g.won
    /\ run_items_used' = r.g.run_items_used
    /\ aimed' = r.g.aimed
    /\ seed' = IF r.seeded THEN Get(disk.data, "seed", 1337) ELSE seed
    /\ last' = Last(CASE r.ret = "ok" -> "load" [] r.ret = "failed" -> "load_failed"
                       [] OTHER -> "load_raised",
                     path, 0, 0, FALSE, r.g, "none")
    /\ disk.loads < MaxLoads
    /\ disk' = [disk EXCEPT !.loads = @ + 1]
    /\ UNCHANGED <<ui, auto_play, gen, loop, rng, twin, hot, tk>>

\* L while paused.
GuiLoad ==
    /\ ui = "gui" /\ state = "paused"
    /\ LoadCommit(load_file(G, disk), "gui")

\* File > Load of the menu bar, in any state.
MenuLoad ==
    /\ ui = "gui"
    /\ LoadCommit(load_file(G, disk), "menu")

NextLoad ==
    \/ \E k \in GameKeys : LoadPlay(k)
    \/ LoadPause
    \/ GuiSave
    \/ \E kind \in TamperKinds : Tamper(kind)
    \/ GuiLoad
    \/ MenuLoad

SpecLoad == InitLoad /\ [][NextLoad]_vars

\* S and then L in the second run while both are paused: save_game(), then
\* load_game() of the file just written, which also seeds a fresh generator.
TwinSaveLoad ==
    /\ ui = "gui" /\ twin.on
    /\ state = "paused" /\ twin.g.state = "paused"
    /\ disk.loads < MaxLoads
    /\ \E data \in {save_game(Live(twin.g), twin.seed)} :
          /\ twin' = [twin EXCEPT !.g = Core(load_game(Live(twin.g), data)),
                                  !.seed = Get(data, "seed", 1337),
                                  !.rng = [seed |-> Get(data, "seed", 1337), n |-> 0]]
          /\ disk' = [disk EXCEPT !.kind = "parsed", !.data = data, !.loads = @ + 1]
    /\ last' = Last("load", "gui", 0, 0, FALSE, G, "none")
    /\ UNCHANGED <<ui, seed, menu_tier, state, turn, map, player, enemies, items, inventory,
                   exit, visible, auto_play, gen, won, run_items_used, aimed, loop, rng, hot, tk>>

NextTwinLoad ==
    \/ \E k \in GameKeys : TwinKey(k)
    \/ TwinPause
    \/ TwinSaveLoad

SpecTwinLoad == InitTwin /\ [][NextTwinLoad]_vars

---------------------------------------------------------------------------
(* Hot reload: the watcher thread and the Tk main loop *)

\* The turn at which the run stops taking keys, the edits of the config
\* directory, and the seeds of the dungeons.
HotMaxTurn == 3

MaxEdits == 1

HotSeeds == {3, 4}

\* What the config directory may hold: map.fov_radius (0 when absent) and
\* whether there are enemy overrides.
HotConfigs == {[fov |-> f, enemies |-> e] : f \in {0, 2}, e \in {0, 1}}

\* game_mod.ENEMY_TYPES and game_mod.FOV_RADIUS.
Tables(h) == [ENEMY_TYPES |-> h.enemy_types, FOV_RADIUS |-> h.fov_radius]

\* The game's own variables.
GameVars ==
    <<seed, menu_tier, state, turn, map, player, enemies, items, inventory, exit,
      visible, won, run_items_used, aimed>>

\* One pass of _watch_loop that also applied the config to the game module.
WatchScanApplying(h) ==
    [h EXCEPT !.pending = @ \cup {"config"}, !.snap = h.file,
              !.fov_radius = Max2(1, IF h.file.fov = 0 THEN @ ELSE h.file.fov),
              !.enemy_types = h.file.enemies,
              !.scanned_at = h.pc, !.who = "watcher"]

\* One pass of _watch_loop that finds the config directory changed: the reason
\* is added under the lock and the snapshot replaced.
watch_scan(h) ==
    [h EXCEPT !.pending = @ \cup {"config"}, !.snap = h.file,
              !.scanned_at = h.pc, !.who = "watcher"]

\* recompute_fov() reading the module's FOV_RADIUS as it is now.
HotFov(g, radius) ==
    Bind({c \in Cells(g.map) : has_los(g.map, g.player.x, g.player.y, c[1], c[2], radius)},
         LAMBDA vis : [g EXCEPT !.visible = vis, !.map.explored = @ \cup vis])

\* Assign the game record and the reload state.
HotCommit(g, h) ==
    /\ map' = g.map
    /\ player' = g.player
    /\ enemies' = g.enemies
    /\ state' = g.state
    /\ items' = g.items
    /\ inventory' = g.inventory
    /\ exit' = g.exit
    /\ visible' = g.visible
    /\ menu_tier' = g.menu_tier
    /\ turn' = g.turn
    /\ won' = g.won
    /\ run_items_used' = g.run_items_used
    /\ aimed' = g.aimed
    /\ hot' = h
    /\ UNCHANGED <<ui, seed, auto_play, gen, last, loop, rng, twin, disk, tk>>

\* GuiApp.__init__ has started the watcher and scheduled the first poll.
InitHot ==
    /\ ui = "gui"
    /\ seed \in HotSeeds
    /\ gen = NoGen
    /\ last = NoLast
    /\ auto_play = FALSE
    /\ loop = "outer"
    /\ rng = NoRng /\ twin = NoTwin /\ disk = NoDisk /\ tk = NoTk
    /\ hot = [pc |-> "idle", key |-> <<0, 0>>,
              file |-> [fov |-> 0, enemies |-> 0], snap |-> [fov |-> 0, enemies |-> 0],
              pending |-> {}, fov_radius |-> FOV_RADIUS, enemy_types |-> 0,
              edits |-> 0, scanned_at |-> "never", who |-> "main"]
    /\ \E g \in {NewGameOf(Blank, seed)} :
           /\ map = g.map
           /\ player = g.player
           /\ enemies = g.enemies
           /\ state = g.state
           /\ items = g.items
           /\ inventory = g.inventory
           /\ exit = g.exit
           /\ visible = g.visible
           /\ menu_tier = g.menu_tier
           /\ turn = g.turn
           /\ won = g.won
           /\ run_items_used = g.run_items_used
           /\ aimed = g.aimed

\* Somebody edits the config directory.
HotEdit ==
    /\ hot.pc # "off" /\ hot.edits < MaxEdits
    /\ \E c \in HotConfigs \ {hot.file} :
          hot' = [hot EXCEPT !.file = c, !.edits = @ + 1, !.who = "editor"]
    /\ UNCHANGED <<ui, seed, menu_tier, state, turn, map, player, enemies, items, inventory,
                   exit, visible, auto_play, gen, last, won, run_items_used, aimed, loop,
                   rng, twin, disk, tk>>

\* The watcher thread, at any point of the main thread's work.
WatchScan ==
    /\ hot.pc # "off" /\ hot.snap # hot.file
    /\ hot' = watch_scan(hot)
    /\ UNCHANGED <<ui, seed, menu_tier, state, turn, map, player, enemies, items, inventory,
                   exit, visible, auto_play, gen, last, won, run_items_used, aimed, loop,
                   rng, twin, disk, tk>>

\* on_key with a direction key or ".", up to the player's step.
HotMove(k) ==
    /\ hot.pc = "idle" /\ state = "playing"
    /\ turn < HotMaxTurn
    /\ \E g1 \in {IF k = <<0, 0>> THEN G ELSE move_entity(G, 0, k[1], k[2])} :
          HotCommit(g1, [hot EXCEPT !.pc = IF g1.state = "playing" THEN "moved" ELSE "idle",
                                    !.key = k, !.who = "main"])

\* The same handler going on: enemy_turns(), the player's decay, the turn counter.
HotEnemies ==
    /\ hot.pc = "moved"
    /\ \E rs \in DrawSeqs(G, 1) :
          HotCommit(DecayPlayer(EnemiesAndTurn(G, rs)),
                    [hot EXCEPT !.pc = "enemies", !.who = "main"])

\* The same handler ending: recompute_fov() and redraw().
HotEndTurn ==
    /\ hot.pc = "enemies"
    /\ HotCommit(HotFov(G, hot.fov_radius), [hot EXCEPT !.pc = "idle", !.who = "main"])

\* The poll timer fires in the idle main loop and has_pending_reload() answers
\* yes: _check_live_reload() applies the config and redraws.
LiveCheck ==
    /\ hot.pc = "idle" /\ hot.pending # {}
    /\ \E h \in {[hot EXCEPT !.pending = {},
                              !.fov_radius = Max2(1, IF hot.file.fov = 0 THEN @ ELSE hot.file.fov),
                              !.enemy_types = hot.file.enemies,
                              !.who = "main"]} :
          HotCommit(HotFov(G, h.fov_radius), h)

NextHot ==
    \/ HotEdit
    \/ WatchScan
    \/ \E k \in GameKeys : HotMove(k)
    \/ HotEnemies
    \/ HotEndTurn
    \/ LiveCheck

SpecHot == InitHot /\ [][NextHot]_vars

SpecCombat == InitLoaded /\ [][NextCombat]_vars

---------------------------------------------------------------------------
(* Map.generate and the player placement of new_game, step by step *)

\* The map sizes and generators explored, <<w, h, gen_type>>: grids far smaller
\* than the menus allow (20..120 x 10..60), small enough to take every draw of
\* the generator.  7 x 10 holds two rooms of the least size, 4 x 3.
GenSizes == {<<5, 5, "caves">>, <<7, 5, "caves">>, <<7, 10, "rooms">>}

\* range(a, b + 1)
Range(a, b) == [k \in 1 .. Max2(0, b - a + 1) |-> a + k - 1]

\* "1 <= x < self.w - 1 and 1 <= y < self.h - 1"
Interior(m, x, y) == 1 <= x /\ x < m.w - 1 /\ 1 <= y /\ y < m.h - 1

carve(m, x, y) == IF in_bounds(m, x, y) THEN [m EXCEPT !.tiles = @ \cup {<<x, y>>}] ELSE m

Steps4 == <<<<1, 0>>, <<-1, 0>>, <<0, 1>>, <<0, -1>>>>

\* The flood of _flood_fill_reachable: reached grows by the walkable in-bounds
\* neighbours of the cells last added until none is new.
RECURSIVE FloodFrom(_, _, _)
FloodFrom(m, reached, added) ==
    IF added = {} THEN reached
    ELSE LET next == {c \in {<<a[1] + Steps4[k][1], a[2] + Steps4[k][2]>> :
                                a \in added, k \in 1 .. 4} :
                         is_walkable(m, c[1], c[2]) /\ c \notin reached}
         IN  FloodFrom(m, reached \cup next, next)

_flood_fill_reachable(m, sx, sy) ==
    IF is_walkable(m, sx, sy) THEN FloodFrom(m, {<<sx, sy>>}, {<<sx, sy>>}) ELSE {}

_enforce_connected(m, sx, sy) ==
    [m EXCEPT !.tiles = {c \in @ : c \in _flood_fill_reachable(m, sx, sy)}]

\* Rectangles are <<x1, y1, x2, y2>>.
_intersect(r1, r2) == ~(r1[3] < r2[1] \/ r2[3] < r1[1] \/ r1[4] < r2[2] \/ r2[4] < r1[2])

_center(r) == <<(r[1] + r[3]) \div 2, (r[2] + r[4]) \div 2>>

_carve_rect(m, r) ==
    [m EXCEPT !.tiles = @ \cup ((Max2(1, r[1]) .. Min2(m.w - 1, r[3] + 1) - 1)
                                 \X (Max2(1, r[2]) .. Min2(m.h - 1, r[4] + 1) - 1))]

_place_door(m, x, y) ==
    IF ~in_bounds(m, x, y) THEN m
    ELSE IF has_door(m, x, y) THEN m
    ELSE IF <<x, y>> \notin m.tiles THEN m
    ELSE [m EXCEPT !.doors = (<<x, y>> :> Door(FALSE, FALSE)) @@ @]

\* generate_caves up to its loop.
CavesBegin(m0) ==
    LET m == carve([EmptyMap(m0.w, m0.h) EXCEPT !.gen_type = "caves"], m0.w \div 2, m0.h \div 2)
    IN  [GenRec("walk", m) EXCEPT !.x = m0.w \div 2, !.y = m0.h \div 2, !.carved = 1]

\* int(w * h * 0.45)
target_floor(m) == (m.w * m.h * 45) \div 100

max_attempts(m) == Min2(m.w * m.h * 50, MaxCaveSteps)

\* One iteration of the drunkard walk; d is the direction drawn.
CaveWalk(g, d) ==
    LET nx == g.x + d[1]
        ny == g.y + d[2]
        fresh == ~is_walkable(g.m, nx, ny)
    IN  IF Interior(g.m, nx, ny)
        THEN [g EXCEPT !.m = carve(@, nx, ny), !.x = nx, !.y = ny,
                       !.carved = IF fresh THEN @ + 1 ELSE @,
                       !.attempts = @ + 1]
        ELSE [g EXCEPT !.attempts = @ + 1]

\* generate_rooms up to its room loop; n is the randint(8, 14) drawn.
RoomsBegin(m0, n) ==
    [GenRec("rooms", [EmptyMap(m0.w, m0.h) EXCEPT !.gen_type = "rooms"])
        EXCEPT !.n_rooms = n, !.attempts = n * 8]

\* One iteration of the room loop with the size and corner drawn.
RoomAttempt(g, rw, rh, rx, ry) ==
    LET rect == <<rx, ry, rx + rw - 1, ry + rh - 1>>
        inflated == <<rect[1] - 1, rect[2] - 1, rect[3] + 1, rect[4] + 1>>
    IN  IF \E k \in 1 .. Len(g.m.rooms) : _intersect(inflated, g.m.rooms[k])
        THEN [g EXCEPT !.attempts = @ - 1]
        ELSE [g EXCEPT !.attempts = @ - 1,
                       !.m = _carve_rect([@ EXCEPT !.rooms = Append(@, rect)], rect)]

\* The room indices sorted by (centre x, centre y), ties in list order.
RECURSIVE OrderOf(_, _)
OrderOf(centers, S) ==
    IF S = {} THEN <<>>
    ELSE LET Before(a, b) == \/ centers[a][1] < centers[b][1]
                             \/ (centers[a][1] = centers[b][1] /\ centers[a][2] < centers[b][2])
                             \/ (centers[a] = centers[b] /\ a <= b)
             f == CHOOSE a \in S : \A b \in S : Before(a, b)
         IN  <<f>> \o OrderOf(centers, S \ {f})

\* After the room loop: the fallback hall, the centres and the corridor order.
RoomsPlaced(g) ==
    LET hall == <<2, 2, g.m.w - 3, g.m.h - 3>>
        m1 == IF g.m.rooms = <<>>
              THEN [_carve_rect(g.m, hall) EXCEPT !.rooms = <<hall>>]
              ELSE g.m
        m2 == [m1 EXCEPT !.room_centers = [k \in 1 .. Len(m1.rooms) |-> _center(m1.rooms[k])]]
    IN  [g EXCEPT !.pc = "corridor", !.m = m2,
                  !.order = OrderOf(m2.room_centers, 1 .. Len(m2.rooms)), !.i = 2]

\* CorridorPath without its second leg.
CorridorFirstLeg(ax, ay, bx, by, horizontal_first) ==
    IF horizontal_first
    THEN [k \in 1 .. Max2(ax, bx) - Min2(ax, bx) + 1 |-> <<Min2(ax, bx) + k - 1, ay>>]
    ELSE [k \in 1 .. Max2(ay, by) - Min2(ay, by) + 1 |-> <<ax, Min2(ay, by) + k - 1>>]

\* The L-shaped corridor of the cells between two centres; horizontal_first is
\* the draw "rng.random() < 0.5".
CorridorPath(ax, ay, bx, by, horizontal_first) ==
    LET xs == Range(Min2(ax, bx), Max2(ax, bx))
        ys == Range(Min2(ay, by), Max2(ay, by))
    IN  IF horizontal_first
        THEN [k \in 1 .. Len(xs) |-> <<xs[k], ay>>] \o [k \in 1 .. Len(ys) |-> <<bx, ys[k]>>]
        ELSE [k \in 1 .. Len(ys) |-> <<ax, ys[k]>>] \o [k \in 1 .. Len(xs) |-> <<xs[k], by>>]

CorridorBegin(g, horizontal_first) ==
    LET a == _center(g.m.rooms[g.order[g.i - 1]])
        b == _center(g.m.rooms[g.order[g.i]])
    IN  [g EXCEPT !.pc = "cell", !.path = CorridorPath(a[1], a[2], b[1], b[2], horizontal_first),
                  !.j = 1, !.prev_in_room = 0]

\* The index of the first room containing (x, y), 0 for None.
RoomIndexAt(m, x, y) ==
    LET S == {k \in 1 .. Len(m.rooms) :
                 /\ m.rooms[k][1] <= x /\ x <= m.rooms[k][3]
                 /\ m.rooms[k][2] <= y /\ y <= m.rooms[k][4]}
    IN  IF S = {} THEN 0 ELSE MinOf(S)

\* One cell of the corridor; widen is the draw "rng.random() < 0.25".
CorridorCell(g, widen) ==
    LET x == g.path[g.j][1]
        y == g.path[g.j][2]
        m1 == carve(g.m, x, y)
        m2 == IF widen
              THEN LET ml == IF Interior(m1, x + 1, y) THEN carve(m1, x + 1, y) ELSE m1
                   IN  IF Interior(ml, x - 1, y) THEN carve(ml, x - 1, y) ELSE ml
              ELSE m1
        in_idx == RoomIndexAt(g.m, x, y)
        m3 == IF in_idx # 0 /\ (g.prev_in_room = 0 \/ g.prev_in_room # in_idx)
              THEN _place_door(m2, x, y) ELSE m2
    IN  IF Interior(g.m, x, y)
        THEN [g EXCEPT !.m = m3, !.prev_in_room = in_idx, !.j = @ + 1]
        ELSE [g EXCEPT !.j = @ + 1]

\* The end of generate_rooms: connectivity from the first room's centre, then
\* the doors of the set drawn (a shuffle's first locked_count) are locked.
RoomsFinish(g, locked) ==
    LET s  == _center(g.m.rooms[1])
        m1 == _enforce_connected(g.m, s[1], s[2])
    IN  GenRec("place", [m1 EXCEPT !.doors = [c \in DOMAIN @ |->
                                       IF c \in locked THEN Door(FALSE, TRUE) ELSE @[c]]])

\* The end of generate_caves.
CavesFinish(g) ==
    GenRec("place", _enforce_connected(g.m, g.m.w \div 2, g.m.h \div 2))

\* The cells place_entity_random_floor may put an entity on: a walkable cell off
\* the border that no entity of avoid holds (the random tries), else the first
\* such cell of the whole grid in row order (the fallback), else where it was.
place_entity_random_floor(m, at, avoid) ==
    LET Ok(c) == is_walkable(m, c[1], c[2]) /\ c \notin avoid
        tries == {c \in (1 .. m.w - 2) \X (1 .. m.h - 2) : Ok(c)}
        all   == {c \in Cells(m) : Ok(c)}
        first == CHOOSE c \in all : \A d \in all : c[2] < d[2] \/ (c[2] = d[2] /\ c[1] <= d[1])
    IN  IF tries # {} THEN tries
        ELSE IF all # {} THEN {first}
        ELSE {at}

\* Where new_game may put the player.
PlayerSpawns(m) ==
    IF m.gen_type = "rooms" /\ m.room_centers # <<>>
    THEN {m.room_centers[k] : k \in 1 .. Len(m.room_centers)}
    ELSE place_entity_random_floor(m, <<0, 0>>, {})

(* The steps as actions *)

GenUnchanged ==
    UNCHANGED <<ui, seed, menu_tier, state, items, inventory, exit, auto_play, last, won,
                run_items_used, aimed, loop, enemies, rng, twin, disk, hot, tk>>

\* new_game: a fresh Map of the menu's size, and generate() begins.
GenBegin ==
    /\ gen.pc = "idle" /\ state = "menu"
    /\ \E sz \in GenSizes :
          IF sz[3] = "caves"
          THEN gen' = CavesBegin(EmptyMap(sz[1], sz[2]))
          ELSE \E n \in 8 .. 14 : gen' = RoomsBegin(EmptyMap(sz[1], sz[2]), n)
    /\ UNCHANGED <<map, player, turn, visible>>
    /\ GenUnchanged

GenCaveStep ==
    /\ gen.pc = "walk"
    /\ gen.carved < target_floor(gen.m) /\ gen.attempts < max_attempts(gen.m)
    /\ \E k \in 1 .. 4 : gen' = CaveWalk(gen, Steps4[k])
    /\ UNCHANGED <<map, player, turn, visible>>
    /\ GenUnchanged

GenCavesFinish ==
    /\ gen.pc = "walk"
    /\ ~(gen.carved < target_floor(gen.m) /\ gen.attempts < max_attempts(gen.m))
    /\ gen' = CavesFinish(gen)
    /\ UNCHANGED <<map, player, turn, visible>>
    /\ GenUnchanged

GenRoomAttempt ==
    /\ gen.pc = "rooms"
    /\ Len(gen.m.rooms) < gen.n_rooms /\ gen.attempts > 0
    /\ \E rw \in 4 .. Max2(4, Min2(10, gen.m.w \div 5)),
          rh \in 3 .. Max2(3, Min2(8, gen.m.h \div 5)) :
          \E rx \in 1 .. Max2(1, gen.m.w - rw - 2), ry \in 1 .. Max2(1, gen.m.h - rh - 2) :
             gen' = RoomAttempt(gen, rw, rh, rx, ry)
    /\ UNCHANGED <<map, player, turn, visible>>
    /\ GenUnchanged

GenRoomsPlaced ==
    /\ gen.pc = "rooms"
    /\ ~(Len(gen.m.rooms) < gen.n_rooms /\ gen.attempts > 0)
    /\ gen' = RoomsPlaced(gen)
    /\ UNCHANGED <<map, player, turn, visible>>
    /\ GenUnchanged

GenCorridorBegin ==
    /\ gen.pc = "corridor" /\ gen.i <= Len(gen.order)
    /\ \E first \in BOOLEAN : gen' = CorridorBegin(gen, first)
    /\ UNCHANGED <<map, player, turn, visible>>
    /\ GenUnchanged

GenCorridorCell ==
    /\ gen.pc = "cell" /\ gen.j <= Len(gen.path)
    /\ \E widen \in BOOLEAN : gen' = CorridorCell(gen, widen)
    /\ UNCHANGED <<map, player, turn, visible>>
    /\ GenUnchanged

GenCorridorEnd ==
    /\ gen.pc = "cell" /\ gen.j > Len(gen.path)
    /\ gen' = [gen EXCEPT !.pc = "corridor", !.i = @ + 1]
    /\ UNCHANGED <<map, player, turn, visible>>
    /\ GenUnchanged

GenRoomsFinish ==
    /\ gen.pc = "corridor" /\ gen.i > Len(gen.order)
    /\ \E locked \in SUBSET DOMAIN gen.m.doors :
          /\ Cardinality(locked) <= Min2(2, Cardinality(DOMAIN gen.m.doors))
          /\ gen' = RoomsFinish(gen, locked)
    /\ UNCHANGED <<map, player, turn, visible>>
    /\ GenUnchanged

\* new_game after generate(): turn 1 and the player placed.
GenPlacePlayer ==
    /\ gen.pc = "place"
    /\ \E c \in PlayerSpawns(gen.m) :
          /\ player' = Entity(c[1], c[2], "Player", 20, 5)
          /\ map' = gen.m
    /\ turn' = 1
    /\ visible' = {}
    /\ gen' = [gen EXCEPT !.pc = "done"]
    /\ GenUnchanged

InitGen == Init /\ ui = "console" /\ seed = 1

NextGen ==
    \/ GenBegin
    \/ GenCaveStep
    \/ GenCavesFinish
    \/ GenRoomAttempt
    \/ GenRoomsPlaced
    \/ GenCorridorBegin
    \/ GenCorridorCell
    \/ GenCorridorEnd
    \/ GenRoomsFinish
    \/ GenPlacePlayer

SpecGen == InitGen /\ [][NextGen]_vars

---------------------------------------------------------------------------
(* new_game placing the enemies, one call of place_entity_random_floor each *)

\* The least map and the most enemies the console menu allows.
MENU_MIN_W == 20

MENU_MIN_H == 10

MENU_MAX_ENEMIES == 99

\* The enemies the model's menu allows, and the dungeon whose map is used: the
\* grid of seed 4 has six walkable cells, as the 20 x 10 grid has 144 at most.
PlaceMaxEnemies == 5

PlaceSeeds == {4}

\* "enemy_count" of new_game: int(math.ceil(n * 1.25)) on tier 2,
\* int(math.ceil(n * 1.5)) on tier 3.
enemy_count(menu_enemies, tier) ==
    LET n == Max2(0, menu_enemies)
    IN  IF tier = 2 THEN (n * 5 + 3) \div 4
        ELSE IF tier = 3 THEN (n * 3 + 1) \div 2
        ELSE n

\* a.pos() for the entities of avoid: the player and the enemies placed so far.
AvoidPos(p, es) == {<<p.x, p.y>>} \cup {<<es[i].x, es[i].y>> : i \in DOMAIN es}

\* ENTER in the menu with some enemy count and tier: new_game up to the player's
\* placement.
PlaceBegin ==
    /\ gen.pc = "idle" /\ state = "menu"
    /\ \E n \in 0 .. PlaceMaxEnemies, tier \in 1 .. 3 :
          \E m \in {Dungeon(seed).map} :
             \E c \in PlayerSpawns(m) :
                /\ map' = m
                /\ player' = Entity(c[1], c[2], "Player", 20, 5)
                /\ menu_tier' = tier
                /\ gen' = [GenRec("enemies", m) EXCEPT !.i = enemy_count(n, tier)]
    /\ turn' = 1
    /\ enemies' = <<>>
    /\ items' = <<>>
    /\ inventory' = [potion |-> 0, key |-> 0]
    /\ visible' = {}
    /\ UNCHANGED <<ui, seed, state, exit, auto_play, last, won, run_items_used, aimed, loop,
                   rng, twin, disk, hot, tk>>

\* One pass of "for _ in range(enemy_count)": random_enemy() at (0, 0), placed
\* away from the player and the enemies before it, and appended.
PlaceEnemy ==
    /\ gen.pc = "enemies" /\ gen.i > 0
    /\ \E c \in place_entity_random_floor(map, <<0, 0>>, AvoidPos(player, enemies)) :
          enemies' = Append(enemies, Enemy(c[1], c[2], "Goblin", menu_tier))
    /\ gen' = [gen EXCEPT !.i = @ - 1]
    /\ UNCHANGED <<ui, seed, menu_tier, state, turn, map, player, items, inventory, exit,
                   visible, auto_play, last, won, run_items_used, aimed, loop,
                   rng, twin, disk, hot, tk>>

\* The rest of new_game: exit and loot as the dungeon has them, state playing,
\* recompute_fov().
PlaceFinish ==
    /\ gen.pc = "enemies" /\ gen.i = 0
    /\ \E d \in {Dungeon(seed)} :
          \E g \in {recompute_fov([G EXCEPT !.exit = d.exit, !.items = d.items,
                                           !.state = "playing"])} :
              /\ exit' = g.exit
              /\ items' = g.items
              /\ state' = g.state
              /\ visible' = g.visible
              /\ map' = g.map
    /\ gen' = [gen EXCEPT !.pc = "done"]
    /\ last' = Last("restart", "console", 0, 0, FALSE, G, "none")
    /\ UNCHANGED <<ui, seed, menu_tier, turn, player, enemies, inventory, auto_play, won,
                   run_items_used, aimed, loop, rng, twin, disk, hot, tk>>

InitPlace == Init /\ ui = "console" /\ seed \in PlaceSeeds

NextPlace ==
    \/ PlaceBegin
    \/ PlaceEnemy
    \/ PlaceFinish

SpecPlace == InitPlace /\ [][NextPlace]_vars

---------------------------------------------------------------------------
(* Properties of the turn engine *)

Entities == <<player>> \o enemies

\* The tiles of the set tiles joined to the set S by 4-directional steps within tiles.
RECURSIVE Closure4(_, _)
Closure4(tiles, S) ==
    LET N == {t \in tiles \ S : \E c \in S : Manh(t[1], t[2], c[1], c[2]) = 1}
    IN  IF N = {} THEN S ELSE Closure4(tiles, S \cup N)

\* C1: when the generator (either mode) and the player placement of new_game are
\* done, the player's spawn tile is walkable and every walkable tile is joined to
\* it by 4-directional steps through walkable tiles, door tiles included.
C1_SpawnReachesEveryFloor ==
    gen.pc = "done" =>
        /\ <<player.x, player.y>> \in map.tiles
        /\ map.tiles = Closure4(map.tiles, {<<player.x, player.y>>})

\* Generation and placement are done for two rooms joined by a widened corridor
\* with a locked door, the player spawned in the second room.
C1_Witness ==
    /\ gen.pc = "done"
    /\ map.gen_type = "rooms"
    /\ Len(map.rooms) = 2
    /\ <<player.x, player.y>> = map.room_centers[2]
    /\ \E c \in DOMAIN map.doors : map.doors[c].locked
    /\ \E c \in map.tiles : RoomIndexAt(map, c[1], c[2]) = 0 /\ c[1] # player.x

\* Generation and placement are done for a cave whose walk carved its target.
C1_WitnessCaves ==
    /\ gen.pc = "done"
    /\ map.gen_type = "caves"
    /\ Cardinality(map.tiles) = target_floor(map)

\* C2: a player move whose target is a wall, out of bounds, or a closed locked
\* door without a key is rejected without consuming a turn: the enemy phase does
\* not run after it, on any input path.
C2_InvalidMoveConsumesNoTurn == last.invalid => ~last.phase

\* C3: every entity, the player and each enemy, has 0 <= hp <= max_hp.
C3_HpWithinBounds ==
    \A k \in 1 .. Len(Entities) : 0 <= Entities[k].hp /\ Entities[k].hp <= Entities[k].max_hp

\* C4: once _on_victory has run, the phase is victory until new_game: neither a
\* later step of the same tick nor a later command other than a restart changes it.
C4_VictoryStays == won => state = "victory"

\* C5: from phase game_over, every command other than a restart leaves the phase
\* game_over.
C5_GameOverStays ==
    [][state = "game_over" => (state' = "game_over" \/ last'.op = "restart")]_vars

\* C8: an archer whose previous turn started an Aim, and that on its turn stands
\* non-adjacent, aligned, in sight and 2 to 5 tiles from the player, fires.
C8_AimedArcherFires ==
    \A i \in 1 .. Len(last.elog) :
        (last.elog[i].took /\ last.elog[i].aimedBefore /\ last.elog[i].canShoot)
            => last.elog[i].ev = "shot"

\* The effects fx with every duration decremented once and the expired ones removed.
DecayedOnce(fx) ==
    [k \in {n \in DOMAIN fx : fx[n].dur >= 2} |-> [fx[k] EXCEPT !.dur = @ - 1]]

\* C9: after a command that consumed a turn, on whichever path, the player's
\* effects are those the enemy phase left, each decremented exactly once.
C9_PlayerEffectsDecayOnce ==
    last.phase => (last.pdecays = 1 /\ player.effects = DecayedOnce(last.pfx))

\* C10: every stored effect of every entity has a duration of at least 1 (the
\* effects a decay brought to 0 are gone), and each enemy that took its turn in the
\* last enemy phase had its effects decayed exactly once there: what the decay
\* left is what it found, each duration one less, the expired removed.
C10_ExpiredEffectsRemoved ==
    /\ \A k \in 1 .. Len(Entities) :
          \A n \in DOMAIN Entities[k].effects : Entities[k].effects[n].dur >= 1
    /\ \A i \in 1 .. Len(last.elog) :
          last.elog[i].took =>
             /\ last.elog[i].decays = 1
             /\ last.elog[i].post = DecayedOnce(last.elog[i].pre)

\* In one enemy phase the decay of an enemy removed an effect that expired and
\* the decay of an enemy kept an effect with one turn less.
C10_Witness ==
    /\ \E i \in 1 .. Len(last.elog) :
          /\ last.elog[i].took
          /\ \E n \in DOMAIN last.elog[i].pre :
                last.elog[i].pre[n].dur = 1 /\ n \notin DOMAIN last.elog[i].post
    /\ \E i \in 1 .. Len(last.elog) :
          /\ last.elog[i].took
          /\ \E n \in DOMAIN last.elog[i].pre :
                /\ last.elog[i].pre[n].dur >= 2
                /\ n \in DOMAIN last.elog[i].post
                /\ last.elog[i].post[n].dur = last.elog[i].pre[n].dur - 1

---------------------------------------------------------------------------
(* Properties of combat *)

\* The value of effect name in the effects mapping fx while it is active, else 0.
ActiveVal(fx, name) == IF name \in DOMAIN fx /\ fx[name].dur > 0 THEN fx[name].val ELSE 0

\* C6: for every hit, the damage before shield absorption is
\* max(0, power + frenzy - hex) * m, with m = 2 when the attacker's Aim is active
\* and 1 otherwise; the damage applied is not negative and is what hp loses; with
\* no effects on either side it is the attacker's power.
C6_DamageFormula ==
    \A k \in 1 .. Len(last.hits) :
        LET h == last.hits[k]
            m == IF ActiveVal(h.afx, "Aim") > 0 THEN 2 ELSE 1
        IN  /\ h.raw = Max2(0, h.power + ActiveVal(h.afx, "Frenzy")
                                       - ActiveVal(h.afx, "Hex")) * m
            /\ h.dmg >= 0
            /\ h.hp1 = h.hp0 - h.dmg
            /\ (h.afx = NoEffects /\ h.dfx = NoEffects)
                  => (h.dmg = h.power /\ h.hp1 = h.hp0 - h.power)

\* In one turn: a hit of power 5 without effects took hp 8 to 3, and a hit with an
\* active Aim and Frenzy was doubled.
C6_Witness ==
    /\ \E k \in 1 .. Len(last.hits) :
          LET h == last.hits[k]
          IN  h.afx = NoEffects /\ h.dfx = NoEffects /\ h.power = 5 /\ h.hp0 = 8 /\ h.hp1 = 3
    /\ \E k \in 1 .. Len(last.hits) :
          LET h == last.hits[k]
          IN  ActiveVal(h.afx, "Aim") > 0 /\ ActiveVal(h.afx, "Frenzy") = 1 /\ h.raw = 6

\* A hit of an attacker whose Hex exceeds its power: the damage is 0, not negative.
C6_WitnessClamp ==
    \E k \in 1 .. Len(last.hits) :
        LET h == last.hits[k]
        IN  ActiveVal(h.afx, "Hex") > h.power /\ h.raw = 0 /\ h.hp1 = h.hp0

C11_EnemiesActInListOrder ==
    last.phase =>
        /\ \A i \in DOMAIN last.elog :
              /\ last.elog[i].took =>
                    /\ last.elog[i].ehp > 0
                    /\ last.elog[i].php > 0
                    /\ \A j \in 1 .. i - 1 :
                          last.elog[j].took => last.elog[j].seq < last.elog[i].seq
              /\ ~last.elog[i].took =>
                    /\ last.elog[i].decays = 0
                    /\ \A k \in DOMAIN last.hits : last.hits[k].att # i
                    /\ \/ enemies[i].hp <= 0
                       \/ /\ player.hp <= 0
                          /\ \A j \in i .. Len(enemies) : ~last.elog[j].took
        /\ \A k, l \in DOMAIN last.hits :
              (k < l /\ last.hits[k].att >= 1) => last.hits[k].att <= last.hits[l].att

\* The player died in the middle of the list: an enemy acted, and a living
\* enemy after it did not.
C11_Witness ==
    /\ last.phase
    /\ player.hp <= 0
    /\ \E i, j \in DOMAIN last.elog :
          /\ i < j
          /\ last.elog[i].took
          /\ ~last.elog[j].took
          /\ enemies[j].hp > 0

\* A dead enemy was passed over and an enemy after it acted.
C11_WitnessDeadSkipped ==
    /\ last.phase
    /\ \E i, j \in DOMAIN last.elog :
          /\ i < j
          /\ enemies[i].hp <= 0
          /\ ~last.elog[i].took
          /\ last.elog[j].took

\* C12: whenever bot_choose_action returns a move (dx, dy), the tile it leads
\* to is in bounds, walkable, and not a closed locked door while the player
\* holds no key, whichever rule produced the move.
C12_BotMoveTargetPassable ==
    (last.path = "auto" /\ last.op \in {"tick", "restart"}) => ~last.invalid

\* The planner can be asked for an action: auto_tick calls bot_choose_action
\* only while the game is being played and the player lives.
BotCallable == state = "playing" /\ is_alive(player)

\* The player is at 40% of max_hp or less and a living enemy is visible and
\* adjacent (diagonals included).
LowHpNextToEnemy ==
    /\ 10 * player.hp <= 4 * player.max_hp
    /\ \E i \in _visible_enemies(G) :
          Cheb(enemies[i].x, enemies[i].y, player.x, player.y) = 1

\* C13: whenever the player's hp is <= 40% of max_hp and a living enemy is
\* visible and adjacent, bot_choose_action returns the action of the flee rule
\* (a step away, or holding the current tile) and never an attack: the step it
\* proposes does not lead onto a tile occupied by a living enemy.
C13_LowHpFleesNeverAttacks ==
    (BotCallable /\ LowHpNextToEnemy) =>
        \E plan \in {bot_choose_action(G)} :
            /\ plan.rule \in {"flee", "hold"}
            /\ plan.kind = "move" =>
                  EnemyAt(G, player.x + plan.dx, player.y + plan.dy) = 0

\* The planner flees with a step away from an adjacent enemy.
C13_Witness ==
    /\ BotCallable /\ LowHpNextToEnemy
    /\ bot_choose_action(G).rule = "flee"
    /\ bot_choose_action(G).kind = "move"

\* The planner holds its tile: no free neighbouring tile is farther from the
\* enemies.
C13_WitnessHold ==
    /\ BotCallable /\ LowHpNextToEnemy
    /\ bot_choose_action(G).rule = "hold"

\* The interior cells the player has never seen and that hold nothing: not
\* explored, not visible, no entity, item or exit on them.
HiddenCells ==
    {c \in Cells(map) :
        /\ Interior(map, c[1], c[2])
        /\ c \notin map.explored /\ c \notin visible
        /\ c # exit
        /\ c # <<player.x, player.y>>
        /\ \A i \in DOMAIN enemies : c # <<enemies[i].x, enemies[i].y>>
        /\ \A k \in DOMAIN items : c # <<items[k].x, items[k].y>>}

\* The maps that differ from the current one in the walkability of one hidden
\* cell without a door, or in the lock of one hidden closed door, and show the
\* player the same field of view.
HiddenVariants ==
    {m \in {[map EXCEPT !.tiles = IF c \in @ THEN @ \ {c} ELSE @ \cup {c}] :
                c \in HiddenCells \ DOMAIN map.doors}
            \cup {[map EXCEPT !.doors[c].locked = ~@] :
                     c \in {d \in HiddenCells \cap DOMAIN map.doors : ~map.doors[d].open}} :
        FovCells(m, player.x, player.y) = FovCells(map, player.x, player.y)}

\* C14: bot_choose_action depends only on explored or visible map data: a game
\* state that agrees with the current one on the player, the inventory, the
\* enemies, the items, the exit and every explored or visible cell, and differs
\* in the walkability or the door of an unexplored cell, gets the same action
\* and the same path.
C14_PlanIgnoresUnexploredCells ==
    BotCallable =>
        \A m \in HiddenVariants :
            bot_choose_action([G EXCEPT !.map = m]) = bot_choose_action(G)

---------------------------------------------------------------------------
(* _bfs_path as a function: the search is asked for paths in fixed worlds *)

\* The worlds searched.  An open 5x5 room with the player in a corner; and a map
\* with a locked door L, a closed door +, a living goblin g and a dead one d,
\* whose right part lies behind the locked door, held with and without a key.
\*     #######        #######
\*     #@....#        #@.L.g#
\*     #.....#        #.###.#
\*     #.....#        #.+d#.#
\*     #.....#        #######
\*     #.....#
\*     #######
BfsWorlds ==
    {[Blank EXCEPT !.state = "playing", !.turn = 1,
                   !.map = [EmptyMap(7, 7) EXCEPT !.tiles = (1 .. 5) \X (1 .. 5)],
                   !.player = Entity(1, 1, "Player", 20, 5)]}
    \cup
    {[Blank EXCEPT !.state = "playing", !.turn = 1,
                   !.map = [EmptyMap(7, 5) EXCEPT
                              !.tiles = ((1 .. 5) \X {1}) \cup {<<1, 2>>, <<5, 2>>}
                                        \cup {<<1, 3>>, <<2, 3>>, <<3, 3>>, <<5, 3>>},
                              !.doors = (<<3, 1>> :> Door(FALSE, TRUE))
                                        @@ (<<2, 3>> :> Door(FALSE, FALSE))],
                   !.player = Entity(1, 1, "Player", 20, 5),
                   !.enemies = <<Enemy(5, 1, "Goblin", 1),
                                 [Enemy(3, 3, "Goblin", 1) EXCEPT !.hp = 0]>>,
                   !.inventory = [potion |-> 0, key |-> k]] : k \in {0, 1}}

\* The goal sets asked for: every single cell of the map, and the pairs of the
\* cells on the diagonal.
BfsGoalSets(m) ==
    {{c} : c \in Cells(m)}
    \cup {{a, b} : a, b \in {c \in Cells(m) : c[1] = c[2] /\ c \in m.tiles}}

InitBfs ==
    /\ ui = "gui"
    /\ seed = 1
    /\ gen = NoGen
    /\ last = NoLast
    /\ auto_play = FALSE
    /\ loop = "outer"
    /\ EnvInit
    /\ \E g \in BfsWorlds :
          /\ map = g.map
          /\ player = g.player
          /\ enemies = g.enemies
          /\ state = g.state
          /\ items = g.items
          /\ inventory = g.inventory
          /\ exit = g.exit
          /\ visible = g.visible
          /\ menu_tier = g.menu_tier
          /\ turn = g.turn
          /\ won = g.won
          /\ run_items_used = g.run_items_used
          /\ aimed = g.aimed

\* _bfs_path(start, goals) is called for a walkable start and a goal set; gen
\* keeps the arguments and the path returned (<<>> for None).  The call changes
\* nothing of the game, so one call per behaviour covers them all.
BfsQuery ==
    \E start \in map.tiles :
       \E goals \in BfsGoalSets(map) :
          /\ gen.pc = "idle"
          /\ gen' = [pc |-> "bfs", start |-> start, goals |-> goals,
                     path |-> _bfs_path(G, start, goals)]
          /\ UNCHANGED <<ui, seed, menu_tier, state, turn, map, player, enemies, items,
                         inventory, exit, visible, auto_play, last, won, run_items_used, aimed, loop,
                   rng, twin, disk, hot, tk>>

NextBfs == BfsQuery

SpecBfs == InitBfs /\ [][NextBfs]_vars

\* A tile the search may enter on the way to goals: a neighbour _neighbors4
\* accepts that is a goal or holds no living entity.
Traversable(g, goals, c) ==
    Nbr4Ok(g, c[1], c[2]) /\ (c \in goals \/ ~_is_occupied(g, c[1], c[2]))

\* The least number of steps from the cells of front (k steps from the start)
\* to a goal over traversable tiles, -1 if no goal can be reached.
RECURSIVE StepsTo(_, _, _, _, _)
StepsTo(g, goals, seen, front, k) ==
    IF front \cap goals # {} THEN k
    ELSE IF front = {} THEN -1
    ELSE Bind({b \in Cells(g.map) \ seen :
                  /\ Traversable(g, goals, b)
                  /\ \E a \in front : Manh(a[1], a[2], b[1], b[2]) = 1}, LAMBDA nxt :
             StepsTo(g, goals, seen \cup nxt, nxt, k + 1))

MinSteps(g, start, goals) == StepsTo(g, goals, {start}, {start}, 0)

\* C15: for every start and non-empty goal set, _bfs_path returns None exactly
\* when no goal can be reached from the start; otherwise a path that starts at
\* the start, ends on a goal, moves between 4-adjacent traversable tiles and has
\* the minimum number of steps (8 from (1,1) to (5,5) in an open room).
C15_BfsPathShortest ==
    gen.pc = "bfs" =>
        /\ (gen.path = <<>>) <=> (MinSteps(G, gen.start, gen.goals) = -1)
        /\ gen.path # <<>> =>
              /\ gen.path[1] = gen.start
              /\ gen.path[Len(gen.path)] \in gen.goals
              /\ \A k \in 1 .. Len(gen.path) - 1 :
                    /\ Manh(gen.path[k][1], gen.path[k][2],
                            gen.path[k + 1][1], gen.path[k + 1][2]) = 1
                    /\ Traversable(G, gen.goals, gen.path[k + 1])
              /\ Len(gen.path) - 1 = MinSteps(G, gen.start, gen.goals)
        /\ (/\ enemies = <<>>
            /\ gen.start = <<1, 1>>
            /\ gen.goals = {<<5, 5>>}) => Len(gen.path) - 1 = 8

\* The path from (1,1) to (5,5) in the open room.
C15_Witness ==
    /\ gen.pc = "bfs"
    /\ enemies = <<>>
    /\ gen.start = <<1, 1>>
    /\ gen.goals = {<<5, 5>>}
    /\ Len(gen.path) = 9

\* No goal can be reached: the goal lies behind the locked door and the player
\* holds no key.
C15_WitnessNone ==
    /\ gen.pc = "bfs"
    /\ inventory.key = 0
    /\ gen.start = <<1, 1>>
    /\ gen.goals = {<<4, 1>>}
    /\ gen.path = <<>>

\* A living entity (the player or an enemy) stands on cell c.
LivingAt(c) == PlayerAt(G, c[1], c[2]) \/ EnemyAt(G, c[1], c[2]) # 0

\* Cell c is a closed locked door and the player holds no key.
LockedShut(c) ==
    /\ c \in DOMAIN map.doors
    /\ ~map.doors[c].open
    /\ map.doors[c].locked
    /\ inventory.key <= 0

\* C16: no path returned by _bfs_path passes through a tile occupied by a living
\* entity, except that its final tile may be occupied when it is a goal; and no
\* path passes through a closed locked door while the player holds no key.  (The
\* tiles passed are those after the start, where the mover itself stands.)
C16_PathAvoidsEntitiesAndLockedDoors ==
    gen.pc = "bfs" =>
        \A k \in 2 .. Len(gen.path) :
            /\ LivingAt(gen.path[k]) => (k = Len(gen.path) /\ gen.path[k] \in gen.goals)
            /\ ~LockedShut(gen.path[k])

\* A path through the locked door, held with the key, that ends on the tile of
\* a living enemy, the goal.
C16_Witness ==
    /\ gen.pc = "bfs"
    /\ inventory.key = 1
    /\ gen.goals = {<<5, 1>>}
    /\ gen.path = <<<<1, 1>>, <<2, 1>>, <<3, 1>>, <<4, 1>>, <<5, 1>>>>
    /\ LivingAt(<<5, 1>>)
    /\ map.doors[<<3, 1>>].locked /\ ~map.doors[<<3, 1>>].open

\* What each rule of the planner would decide in the current state, in the
\* order of priority: flee, avoid an aiming archer's line, avoid archer line of
\* sight, near exit, attack, potion, chase, distant exit, explore.  A rule is
\* applicable when it decides (kind is not "none").
RuleResults ==
    <<BotFlee(G), BotAvoidAim(G), BotAvoidLos(G), BotExitNear(G), BotAttack(G),
      BotLoot(G), BotChase(G), BotExitFar(G), BotExplore(G)>>

PlayerCell == <<player.x, player.y>>

\* A rule of the planner has goals, and the search finds no path with a step to
\* any of them.
Pathless(goals) == goals # {} /\ Len(_bfs_path(G, PlayerCell, goals)) < 2

LootPathless == Pathless(_visible_items(G, "potion"))

ChasePathless == Pathless({<<enemies[i].x, enemies[i].y>> : i \in _visible_enemies(G)})

ExitPathless == ExitVisible(G) /\ Pathless({exit})

FrontierPathless == Pathless(_frontier_targets(G))

\* C18: in every reachable state bot_choose_action terminates and returns an
\* action (wait, or a move of one step); a rule whose search finds no path to
\* its goals does not decide, the planner goes on to the rules below it, and
\* when no rule yields an action it returns wait.
C18_PlannerTotalAndFallsThrough ==
    BotCallable =>
        \E plan \in {bot_choose_action(G)} :
            /\ plan.kind \in {"wait", "move"}
            /\ plan.kind = "move" => Manh(0, 0, plan.dx, plan.dy) = 1
            /\ plan.kind = "wait" => plan.rule \in {"wait", "hold"}
            /\ LootPathless => plan.rule # "loot"
            /\ ChasePathless => plan.rule # "chase"
            /\ ExitPathless => plan.rule \notin {"exit_near", "exit_far"}
            /\ FrontierPathless => plan.rule # "explore"
            /\ (\A k \in DOMAIN RuleResults : RuleResults[k].kind = "none")
                   => plan = Plan("wait", 0, 0, <<>>, "wait")

\* The search finds no path to the visible potion and the planner goes on to a
\* rule below the loot rule.
C18_Witness ==
    /\ BotCallable
    /\ LootPathless
    /\ bot_choose_action(G).rule = "explore"

\* No rule yields an action and the planner waits.
C18_WitnessWait ==
    /\ BotCallable
    /\ \A k \in DOMAIN RuleResults : RuleResults[k].kind = "none"
    /\ bot_choose_action(G).rule = "wait"

---------------------------------------------------------------------------
(* recompute_fov as a function: the player is put on each tile of a hall *)

\* A hall of 10x5 tiles with two pillars and a door that is closed in one map
\* and open in the other; it is wider than the radius of the field of view.
\*     ############
\*     #..........#
\*     #..#.......#
\*     #....+.....#
\*     #......#...#
\*     #..........#
\*     ############
FovMaps ==
    {[EmptyMap(12, 7) EXCEPT
         !.tiles = ((1 .. 10) \X (1 .. 5)) \ {<<3, 2>>, <<7, 4>>},
         !.doors = (<<5, 3>> :> Door(open, FALSE))] : open \in BOOLEAN}

InitFov ==
    /\ ui = "gui"
    /\ seed = 1
    /\ gen = NoGen
    /\ last = NoLast
    /\ auto_play = FALSE
    /\ loop = "outer"
    /\ EnvInit
    /\ map \in FovMaps
    /\ \E c \in map.tiles : player = Entity(c[1], c[2], "Player", 20, 5)
    /\ enemies = <<>>
    /\ state = "playing"
    /\ items = <<>>
    /\ inventory = [potion |-> 0, key |-> 0]
    /\ exit = NoExit
    /\ visible = {}
    /\ menu_tier = 1
    /\ turn = 1
    /\ won = FALSE
    /\ run_items_used = 0
    /\ aimed = {}

\* recompute_fov() is called.
FovRecompute ==
    /\ gen.pc = "idle"
    /\ \E g \in {recompute_fov(G)} :
          /\ visible' = g.visible
          /\ map' = g.map
    /\ gen' = [pc |-> "fov"]
    /\ UNCHANGED <<ui, seed, menu_tier, state, turn, player, enemies, items,
                   inventory, exit, auto_play, last, won, run_items_used, aimed, loop,
                   rng, twin, disk, hot, tk>>

NextFov == FovRecompute

SpecFov == InitFov /\ [][NextFov]_vars

\* Cell c stops the sight: a wall or a closed door (floor and open doors do not).
StopsSight(c) == c \notin map.tiles \/ (c \in DOMAIN map.doors /\ ~map.doors[c].open)

\* The sequence pts is an integer line from a to b: it starts at a, ends at b,
\* advances one cell along the longer axis at each step, and keeps every point
\* within half a cell of the straight line through a and b.
IsIntegerLine(pts, a, b) ==
    LET n == Max2(Abs(b[1] - a[1]), Abs(b[2] - a[2]))
    IN  /\ Len(pts) = n + 1
        /\ pts[1] = a
        /\ pts[Len(pts)] = b
        /\ \A k \in 1 .. Len(pts) :
              /\ Max2(Abs(pts[k][1] - a[1]), Abs(pts[k][2] - a[2])) = k - 1
              /\ 2 * Abs((pts[k][2] - a[2]) * (b[1] - a[1])
                         - (pts[k][1] - a[1]) * (b[2] - a[2])) <= n

\* C19: after recompute_fov from the player's position with radius r, a tile
\* is visible exactly when its squared Euclidean distance from the player is at
\* most r * r and no cell strictly between the player and the tile on the
\* integer Bresenham line blocks sight (walls and closed doors block, floor and
\* open doors do not); a tile farther than r is never visible.
C19_VisibleIffLineOfSight ==
    gen.pc = "fov" =>
        \A c \in Cells(map) :
            \E pts \in {bresenham_line(player.x, player.y, c[1], c[2])} :
                /\ IsIntegerLine(pts, <<player.x, player.y>>, c)
                /\ c \in visible <=>
                      /\ (c[1] - player.x) * (c[1] - player.x)
                         + (c[2] - player.y) * (c[2] - player.y) <= FOV_RADIUS * FOV_RADIUS
                      /\ \A k \in 2 .. Len(pts) - 1 : ~StopsSight(pts[k])

\* The squared distance of cell c from the player.
Dist2(c) == (c[1] - player.x) * (c[1] - player.x) + (c[2] - player.y) * (c[2] - player.y)

\* The cells strictly between the player and cell c on the line that stop sight.
Stoppers(c) ==
    LET pts == bresenham_line(player.x, player.y, c[1], c[2])
    IN  {pts[k] : k \in {j \in 2 .. Len(pts) - 1 : StopsSight(pts[j])}}

\* A field of view in which a tile at distance r exactly is seen, a tile
\* beyond r is hidden by the distance alone, the closed door is seen, and a
\* tile within r is hidden by the door alone.
C19_Witness ==
    /\ gen.pc = "fov"
    /\ ~map.doors[<<5, 3>>].open
    /\ <<5, 3>> \in visible
    /\ \E c \in visible : Dist2(c) = FOV_RADIUS * FOV_RADIUS
    /\ \E c \in Cells(map) \ visible :
          Dist2(c) > FOV_RADIUS * FOV_RADIUS /\ Stoppers(c) = {}
    /\ \E c \in Cells(map) \ visible :
          Dist2(c) <= FOV_RADIUS * FOV_RADIUS /\ Stoppers(c) = {<<5, 3>>}

\* C20: within a run (from one new_game to the next) the explored set only
\* grows: no command other than a restart removes a cell from it; and every
\* visible tile is explored.
C20_ExploredOnlyGrows ==
    /\ [](visible \subseteq map.explored)
    /\ [][last'.op = "restart" \/ map.explored \subseteq map'.explored]_vars

\* The player has moved on within a run: a tile outside the first field of view
\* of the run is explored, and a tile explored earlier is no longer visible.
C20_Witness ==
    /\ ui = "gui"
    /\ last.op \notin {"init", "restart"}
    /\ visible \subseteq map.explored
    /\ map.explored \ visible # {}
    /\ map.explored \ NewGameOf(Blank, seed).map.explored # {}

\* Cell c of map m is a closed locked door.
ClosedLocked(m, c) == c \in DOMAIN m.doors /\ ~m.doors[c].open /\ m.doors[c].locked

\* C21: a closed locked door tile is never entered by an enemy, and is entered
\* by the player only when the inventory holds at least one key; a player with
\* zero keys who moves into it keeps the position and the door stays closed.
C21_LockedDoorNeedsKey ==
    [][last'.op # "restart" =>
          /\ \A i \in DOMAIN enemies :
                <<enemies'[i].x, enemies'[i].y>> # <<enemies[i].x, enemies[i].y>>
                    => ~ClosedLocked(map, <<enemies'[i].x, enemies'[i].y>>)
          /\ (/\ <<player'.x, player'.y>> # <<player.x, player.y>>
              /\ ClosedLocked(map, <<player'.x, player'.y>>)) => inventory.key >= 1
          /\ (/\ last'.op \in {"move", "tick"}
              /\ <<last'.dx, last'.dy>> # <<0, 0>>
              /\ ClosedLocked(map, <<player.x + last'.dx, player.y + last'.dy>>)
              /\ inventory.key = 0)
                 => /\ <<player'.x, player'.y>> = <<player.x, player.y>>
                    /\ map'.doors = map.doors]_vars

\* The player, holding a key, has just stepped onto a locked door and opened it.
C21_Witness ==
    /\ last.op = "move"
    /\ inventory.key >= 1
    /\ <<player.x, player.y>> \in DOMAIN map.doors
    /\ map.doors[<<player.x, player.y>>].locked
    /\ map.doors[<<player.x, player.y>>].open

\* The player, holding no key, has just moved into a closed locked door on
\* which nobody stands, and stayed where it was.
C21_WitnessKeptOut ==
    /\ last.op = "move"
    /\ last.invalid
    /\ inventory.key = 0
    /\ ClosedLocked(map, <<player.x + last.dx, player.y + last.dy>>)
    /\ EnemyAt(G, player.x + last.dx, player.y + last.dy) = 0

\* Cell c of map m is a closed door that is not locked.
ClosedUnlocked(m, c) == c \in DOMAIN m.doors /\ ~m.doors[c].open /\ ~m.doors[c].locked

\* The player half of C22: a move of the player into a closed unlocked door on
\* which no enemy stands opens the door and puts the player on it.
PlayerOpensUnlockedDoor ==
    [][(/\ last'.op \in {"move", "tick"}
        /\ <<last'.dx, last'.dy>> # <<0, 0>>
        /\ ClosedUnlocked(map, <<player.x + last'.dx, player.y + last'.dy>>)
        /\ EnemyAt(G, player.x + last'.dx, player.y + last'.dy) = 0)
          => /\ map'.doors[<<player.x + last'.dx, player.y + last'.dy>>].open
             /\ <<player'.x, player'.y>> = <<player.x + last'.dx, player.y + last'.dy>>]_vars

\* The enemy half of C22: an enemy whose movement step aimed at a free closed
\* unlocked door ends the turn on it, with the door open.
EnemyOpensUnlockedDoor ==
    \A i \in DOMAIN last.elog :
        (/\ last.elog[i].took
         /\ last.elog[i].stepFree
         /\ ClosedUnlocked(map, last.elog[i].step))
           => /\ map.doors[last.elog[i].step].open
              /\ <<enemies[i].x, enemies[i].y>> = last.elog[i].step

\* C22: when the step target of a mover (the player, or an enemy taking its
\* movement step) is a closed unlocked door that is otherwise free, the door is
\* open and the mover stands on the door tile at the end of that turn.
C22_MoverOpensUnlockedDoor == PlayerOpensUnlockedDoor /\ []EnemyOpensUnlockedDoor

\* The key items of the sequence its.
KeyItems(its) == {i \in DOMAIN its : its[i].kind = "key"}

\* C23: within a run the key count never decreases: a step that opens a locked
\* door leaves the count as it was apart from what is picked up on the door
\* tile, and the count grows by exactly the number of key items that left the
\* floor, all of them from the tile the player ends on.
C23_KeysNeverSpent ==
    [][last'.op # "restart" =>
          /\ inventory'.key >= inventory.key
          /\ inventory'.key - inventory.key
                = Cardinality(KeyItems(items)) - Cardinality(KeyItems(items'))
          /\ \A i \in KeyItems(items) :
                <<items[i].x, items[i].y>> # <<player'.x, player'.y>>
                    => \E j \in KeyItems(items') : items'[j] = items[i]
          /\ \A c \in DOMAIN map.doors :
                (ClosedLocked(map, c) /\ map'.doors[c].open)
                    => /\ inventory.key >= 1
                       /\ inventory'.key
                            = inventory.key + CountKind(items, c[1], c[2], "key")]_vars

\* The only key of the dungeon has been picked up and has opened a locked door,
\* and is still in the inventory.
C23_Witness ==
    /\ inventory.key = 1
    /\ KeyItems(items) = {}
    /\ \E c \in DOMAIN map.doors : map.doors[c].locked /\ map.doors[c].open

\* The player's hp when the enemy phase of the last command began: what the
\* first enemy to take a turn faced, or the present hp when none took a turn.
HpBeforeEnemies(l, p) ==
    IF \E i \in DOMAIN l.elog : l.elog[i].took /\ l.elog[i].seq = 1
    THEN l.elog[CHOOSE i \in DOMAIN l.elog : l.elog[i].took /\ l.elog[i].seq = 1].php
    ELSE p.hp

C24_WitnessCapped ==
    /\ last.op = "potion"
    /\ last.phase
    /\ run_items_used = 1
    /\ HpBeforeEnemies(last, player) = player.max_hp

\* C25: when the player holds zero potions or is at full hp, use_potion fails
\* as a no-op: the U key of either front end pressed in such a state leaves
\* hp, inventory and the items-used metric as they were, no enemy acts and the
\* turn counter does not advance; nothing else of the game changes either.
C25_PotionRefusedIsNoOp ==
    [][(/\ last'.op = "potion"
        /\ (inventory.potion = 0 \/ player.hp >= player.max_hp))
          => /\ player' = player
             /\ inventory' = inventory
             /\ run_items_used' = run_items_used
             /\ ~last'.phase
             /\ last'.hits = <<>>
             /\ \A i \in DOMAIN last'.elog : ~last'.elog[i].took
             /\ turn' = turn
             /\ enemies' = enemies
             /\ UNCHANGED <<state, map, items, exit, visible>>]_vars

\* U has just been refused at full hp with a potion in the inventory.
C25_Witness ==
    /\ last.op = "potion"
    /\ ~last.phase
    /\ state = "playing"
    /\ inventory.potion >= 1
    /\ player.hp = player.max_hp

\* U has just been refused to a wounded player without a potion.
C25_WitnessNoPotion ==
    /\ last.op = "potion"
    /\ ~last.phase
    /\ state = "playing"
    /\ inventory.potion = 0
    /\ player.hp < player.max_hp

\* C26: when a non-adjacent Priest acts and at least one living enemy is
\* wounded, the Shield goes to the most wounded living enemy (the Priest
\* included), and among equally wounded candidates to the one closest to the
\* Priest: no candidate misses more hp than the shielded one, and none that
\* misses as much stands closer.
C26_PriestShieldsMostWounded ==
    \A i \in DOMAIN last.elog :
        LET sh == last.elog[i].shield
        IN  (last.elog[i].took /\ DOMAIN sh.missing # {})
              => /\ last.elog[i].ev = "shield"
                 /\ sh.tgt \in DOMAIN sh.missing
                 /\ \A a \in DOMAIN sh.missing :
                       \/ sh.missing[a] < sh.missing[sh.tgt]
                       \/ (sh.missing[a] = sh.missing[sh.tgt] /\ sh.dist[sh.tgt] <= sh.dist[a])

\* What the priest branch does: it shields the wounded living enemy closest to
\* the Priest, the first in list order among the equally close.
PriestShieldsNearest ==
    \A i \in DOMAIN last.elog :
        LET sh == last.elog[i].shield
        IN  (last.elog[i].took /\ DOMAIN sh.missing # {})
              => /\ last.elog[i].ev = "shield"
                 /\ sh.tgt \in DOMAIN sh.missing
                 /\ \A a \in DOMAIN sh.missing :
                       \/ sh.dist[sh.tgt] < sh.dist[a]
                       \/ (sh.dist[sh.tgt] = sh.dist[a] /\ sh.tgt <= a)

\* C28: when load_game fails (the file missing or unparsable, or the parsed
\* save lacking required fields) it reports failure without raising and
\* leaves every field of the game state exactly as it was.
C28_FailedLoadChangesNothing ==
    [][last'.op \in {"load_failed", "load_raised"}
          => /\ last'.op = "load_failed"
             /\ UNCHANGED <<seed, state, turn, menu_tier, map, player, enemies, exit,
                            items, inventory, run_items_used, visible>>]_vars

\* What holds of the failures load_game catches: a missing or unparsable file
\* is reported and changes nothing.
CaughtLoadFailureChangesNothing ==
    [][last'.op = "load_failed"
          => UNCHANGED <<seed, state, turn, menu_tier, map, player, enemies, exit,
                         items, inventory, run_items_used, visible>>]_vars

\* The fields two runs are compared on: state, turn, map with doors and explored
\* cells, player and living enemies with their effects, items, exit, inventory,
\* the items-used metric and the field of view.
Shown(c) ==
    [state |-> c.state, turn |-> c.turn, map |-> c.map, player |-> c.player,
     enemies |-> SelectSeq(c.enemies, is_alive), items |-> c.items, exit |-> c.exit,
     inventory |-> c.inventory, run_items_used |-> c.run_items_used, visible |-> c.visible]

C29_SaveLoadContinuesRun ==
    (twin.on /\ (~twin.random \/ seed = twin.seed))
        => Shown(Core(G)) = Shown(twin.g)

\* What save and load do restore: the fields compared, at the moment of the load.
LoadRestoresShown ==
    [][last'.op = "load" => Shown(twin'.g) = Shown(twin.g)]_vars

\* C30: a hot reload of configuration (ENEMY_TYPES, FOV_RADIUS) is applied only
\* between ticks: a step of the watcher thread changes neither the game's
\* variables nor the two tables, and the tables change only in a step of the
\* main thread that starts and ends with no key handler in progress.
C30_ReloadOnlyBetweenTicks ==
    [][/\ hot'.who = "watcher" => (GameVars' = GameVars /\ Tables(hot') = Tables(hot))
       /\ Tables(hot') # Tables(hot)
            => (hot.pc = "idle" /\ hot'.pc = "idle" /\ hot'.who = "main")]_vars

\* The watcher saw an edit while a turn was in progress, and the new radius is
\* in force: the field of view is the one of radius 2, smaller than the default.
C30_Witness ==
    /\ hot.scanned_at \in {"moved", "enemies"}
    /\ hot.pending = {}
    /\ hot.fov_radius = 2 /\ hot.enemy_types = 1
    /\ visible = {c \in Cells(map) : has_los(map, player.x, player.y, c[1], c[2], 2)}
    /\ visible # FovCells(map, player.x, player.y)

\* What C35 says a finished run keeps: the player's position and hp, every
\* enemy's hp, the item list, the inventory and the items-used metric.
Sim(p, es, its, inv, used) ==
    [x |-> p.x, y |-> p.y, hp |-> p.hp, ehp |-> [i \in DOMAIN es |-> es[i].hp],
     items |-> its, inventory |-> inv, used |-> used]

\* A movement, wait or potion key pressed while the phase is game_over or victory.
EndedCommand ==
    /\ state \in {"game_over", "victory"}
    /\ last'.op \in {"move", "wait", "potion"}

\* C35: while the phase is game_over or victory, movement, wait and potion
\* keys leave the player's position and hp, every enemy's hp, the item list,
\* the inventory and the run metrics unchanged.
C35_EndedRunIgnoresCommands ==
    [][EndedCommand
         => Sim(player', enemies', items', inventory', run_items_used')
              = Sim(player, enemies, items, inventory, run_items_used)]_vars

\* What the code does keep: the phase stays out of "playing" and the turn
\* counter stands still, and the wait key changes nothing at all.
EndedRunKeepsPhaseAndTurn ==
    [][EndedCommand
         => /\ state' \in {"game_over", "victory"}
            /\ turn' = turn
            /\ last'.op = "wait"
                 => Sim(player', enemies', items', inventory', run_items_used')
                      = Sim(player, enemies, items, inventory, run_items_used)]_vars

\* Potions in the inventory, lying on the map and used so far.
PotionTotal(its, inv, used) ==
    Cardinality({i \in DOMAIN its : its[i].kind = "potion"}) + inv.potion + used

\* The items of its that do not lie on tile (x, y), in their order.
ItemsOff(its, x, y) ==
    LET Off(it) == ~(it.x = x /\ it.y = y) IN SelectSeq(its, Off)

\* C40: within a run (any step but a restart) the potions in the inventory plus
\* the potion items on the map plus the potions used stay constant, and the only
\* items that leave the map are those on the tile the player has stepped on:
\* the enemy phase removes none.
C40_PotionsConserved ==
    [][last'.op # "restart"
         => /\ PotionTotal(items', inventory', run_items_used')
                 = PotionTotal(items, inventory, run_items_used)
            /\ items' \in {items, ItemsOff(items, player'.x, player'.y)}]_vars

\* A potion was picked up and drunk, and the enemy phase of the last command ran.
C40_Witness ==
    /\ run_items_used >= 1
    /\ Len(items) < Len(new_game(Blank, seed).items)
    /\ last.phase
    /\ \E i \in DOMAIN last.elog : last.elog[i].took

\* C38: in the console run loop every game phase keeps accepting commands: in
\* victory, as in game_over, the loop is waiting for input and the restart
\* command is accepted and re-enters playing.
C38_ConsoleEndedRunAcceptsRestart ==
    (ui = "console" /\ state \in {"victory", "game_over"}) => ENABLED ConsoleRestart

\* What the loop does provide: game_over, playing and paused read a key and
\* take the restart command.
ConsoleGameOverAcceptsRestart ==
    (ui = "console" /\ ~InAutoLoop /\ state \in {"game_over", "playing", "paused"})
        => ENABLED ConsoleRestart

\* The living entities, player first: 0 is the player, i the i-th enemy.
Living == {r \in 0 .. Len(enemies) : is_alive(IF r = 0 THEN player ELSE enemies[r])}

\* The tile entity r stands on.
PosOf(r) == IF r = 0 THEN <<player.x, player.y>> ELSE <<enemies[r].x, enemies[r].y>>

\* C33: in every state of a run, from new_game onward and for every menu
\* setting allowed, no two living entities occupy the same tile.
C33_NoTwoLivingOnOneTile ==
    state = "playing" => \A a \in Living, b \in Living : a # b => PosOf(a) # PosOf(b)

\* The menu's own numbers overflow in the same way: the most enemies of tier 3
\* and the player are more than the cells inside the border of the least map.
MenuAllowsOverflow ==
    enemy_count(MENU_MAX_ENEMIES, 3) + 1 > (MENU_MIN_W - 2) * (MENU_MIN_H - 2)

\* What the placement does provide: while a free walkable cell is left, the
\* enemies placed stand on distinct walkable cells away from the player.
PlacedApartWhileRoom ==
    (gen.pc \in {"enemies", "done"}
       /\ Len(enemies) + 1 <= Cardinality({c \in Cells(map) : is_walkable(map, c[1], c[2])}))
        => /\ \A a \in Living, b \in Living : a # b => PosOf(a) # PosOf(b)
           /\ \A a \in Living : is_walkable(map, PosOf(a)[1], PosOf(a)[2])

\* C34: in every state of a run every living entity stands on an in-bounds
\* walkable tile, and the outer border row and column are never walkable.
C34_LivingOnWalkableInsideBorder ==
    state = "playing"
        => /\ \A a \in Living :
                 /\ in_bounds(map, PosOf(a)[1], PosOf(a)[2])
                 /\ is_walkable(map, PosOf(a)[1], PosOf(a)[2])
           /\ \A c \in Cells(map) :
                 is_walkable(map, c[1], c[2]) => Interior(map, c[1], c[2])

\* The half of C34 about the grid: no walkable cell on the border.
BorderNeverWalkable ==
    state = "playing"
        => \A c \in Cells(map) : is_walkable(map, c[1], c[2]) => Interior(map, c[1], c[2])

---------------------------------------------------------------------------
(* The GUI's timers: root.after, GuiApp._ensure_auto, GuiApp._auto_tick and the
   auto series. The Tk main loop runs one callback or key handler at a time,
   to its end. *)

\* The speeds and the runs of a series the model starts with, the seeds of its
\* dungeons, and the finished runs after which autoplay stops playing.
AutoSpeeds == {4, 16}

SeriesRuns == {1, 2}

TkSeeds == {1, 3}

MaxEnds == 2

Ended == {"victory", "game_over"}

\* root.after(ms, cb): a pending timer, due in "left" ms; tracked tells that
\* _auto_after_id holds its id.
Timer(cb, ms, tracked) == [cb |-> cb, left |-> ms, tracked |-> tracked]

\* The same without cancelling the timer _auto_after_id names.
EnsureAutoKeepingTimer(t, auto) ==
    IF ~auto THEN t
    ELSE [t EXCEPT !.queue = Append(t.queue,
                       Timer("auto", Max2(1, 1000 \div Max2(1, t.auto_ticks_per_sec)), TRUE))]

\* GuiApp._ensure_auto: after_cancel of the timer _auto_after_id names, then,
\* with autoplay on, one new timer for _auto_tick.
_ensure_auto(t, auto) ==
    LET q == SelectSeq(t.queue, LAMBDA e : ~e.tracked)
    IN  IF ~auto THEN [t EXCEPT !.queue = q]
        ELSE [t EXCEPT !.queue = Append(q,
                       Timer("auto", Max2(1, 1000 \div Max2(1, t.auto_ticks_per_sec)), TRUE))]

\* The timer Tk fires next: the least time left, the oldest of equals.
NextTimer(q) ==
    CHOOSE i \in DOMAIN q :
        \A j \in DOMAIN q : q[i].left < q[j].left \/ (q[i].left = q[j].left /\ i <= j)

\* The queue once that timer has fired: the time it waited has passed for all.
AfterFire(q) ==
    [j \in 1 .. Len(q) - 1 |->
        [q[IF j < NextTimer(q) THEN j ELSE j + 1] EXCEPT !.left = @ - q[NextTimer(q)].left]]

\* "self._auto_after_id = None".
Forget(q) == [j \in DOMAIN q |-> [q[j] EXCEPT !.tracked = FALSE]]

Due(cb) == tk.on /\ tk.queue # <<>> /\ tk.queue[NextTimer(tk.queue)].cb = cb

\* History: one more finished run when a playing run ends in this step.
RunEnds(t, g1) == [t EXCEPT !.ends = @ + (IF state = "playing" /\ g1.state \in Ended THEN 1 ELSE 0)]

\* The timers for _auto_tick that are pending, the number a handler saw pending
\* while it ran being kept in tk.inside.
AutoTimers(q) == Cardinality({i \in DOMAIN q : q[i].cb = "auto"})

TkCommit(g, auto, l, t) ==
    /\ CommitGame(g, auto, loop, l)
    /\ tk' = t
    /\ UNCHANGED <<rng, twin, disk, hot>>

\* GuiApp.__init__ and the first redraw: the run has begun, nothing is scheduled.
InitTk ==
    /\ ui = "gui"
    /\ seed \in TkSeeds
    /\ gen = NoGen
    /\ last = NoLast
    /\ auto_play = FALSE
    /\ loop = "outer"
    /\ rng = NoRng /\ twin = NoTwin /\ disk = NoDisk /\ hot = NoHot
    /\ \E tps \in AutoSpeeds :
          tk = [on |-> TRUE, queue |-> <<>>, auto_ticks_per_sec |-> tps,
                auto_restart_delay_ms |-> 800,
                auto_restart_on_death |-> TRUE, auto_restart_on_victory |-> TRUE,
                _series_active |-> FALSE, _series_total |-> 0, _series_done |-> 0,
                _series_wins |-> 0, _series_losses |-> 0,
                ends |-> 0, resets |-> 0, inside |-> 0, keys |-> 0]
    /\ \E g \in {NewGameOf(Blank, seed)} :
           /\ map = g.map
           /\ player = g.player
           /\ enemies = g.enemies
           /\ state = g.state
           /\ items = g.items
           /\ inventory = g.inventory
           /\ exit = g.exit
           /\ visible = g.visible
           /\ menu_tier = g.menu_tier
           /\ turn = g.turn
           /\ won = g.won
           /\ run_items_used = g.run_items_used
           /\ aimed = g.aimed

\* _auto_tick with autoplay off: "if not g.auto_play: return".
TkAutoTickOff ==
    /\ Due("auto") /\ ~auto_play
    /\ tk' = [tk EXCEPT !.queue = Forget(AfterFire(tk.queue))]
    /\ UNCHANGED <<ui, seed, menu_tier, state, turn, map, player, enemies, items, inventory,
                   exit, visible, auto_play, gen, last, won, run_items_used, aimed, loop,
                   rng, twin, disk, hot>>

\* _auto_tick while playing: g.auto_tick(), redraw, _ensure_auto.
TkAutoTickPlay ==
    /\ Due("auto") /\ auto_play /\ state = "playing"
    /\ turn < MaxTurn /\ tk.ends < MaxEnds
    /\ \E plan \in {bot_choose_action(G)} :
          \E rs \in Draws(G, plan.dx, plan.dy) :
             \E g1 \in {auto_tick(G, rs)} :
                \E t \in {[tk EXCEPT !.queue = Forget(AfterFire(tk.queue))]} :
                   TkCommit(g1, auto_play,
                            Last("tick", "auto", plan.dx, plan.dy,
                                 plan.kind = "move" /\ InvalidMove(G, plan.dx, plan.dy),
                                 g1, plan.rule),
                            _ensure_auto(RunEnds([t EXCEPT !.inside = AutoTimers(t.queue)], g1),
                                         auto_play))

\* _auto_tick on a run that is not playing: a finished run of a series is
\* counted and _series_next_run scheduled; any other finished run gets its
\* restart scheduled when the auto-restart of its outcome is on.
TkAutoTickIdle ==
    /\ Due("auto") /\ auto_play /\ state # "playing"
    /\ \E t \in {[tk EXCEPT !.queue = Forget(AfterFire(tk.queue))]} :
         \E d \in {Max2(1, t.auto_restart_delay_ms)} :
          \E t1 \in {IF t._series_active /\ state \in Ended
                         THEN [t EXCEPT !._series_wins = @ + (IF state = "victory" THEN 1 ELSE 0),
                                        !._series_losses = @ + (IF state = "victory" THEN 0 ELSE 1),
                                        !.queue = Append(@, Timer("series", d, FALSE))]
                      ELSE IF state \in Ended
                              /\ ((state = "victory" /\ t.auto_restart_on_victory)
                                     \/ (state = "game_over" /\ t.auto_restart_on_death))
                         THEN [t EXCEPT !.queue = Append(@, Timer("restart", d, FALSE))]
                      ELSE t} :
             tk' = _ensure_auto([t1 EXCEPT !.inside = AutoTimers(t.queue)], auto_play)
    /\ UNCHANGED <<ui, seed, menu_tier, state, turn, map, player, enemies, items, inventory,
                   exit, visible, auto_play, gen, last, won, run_items_used, aimed, loop,
                   rng, twin, disk, hot>>

\* The timer of the auto-restart: "lambda: (g.new_game(is_restart=True),
\* self.redraw())".
TkRestartTimer ==
    /\ Due("restart")
    /\ TkCommit(NewGameOf(G, seed), auto_play,
                Last("restart", "gui_timer", 0, 0, FALSE, G, "none"),
                [tk EXCEPT !.queue = AfterFire(tk.queue), !.resets = @ + 1])

\* GuiApp._series_finish.
_series_finish(t) == [t EXCEPT !._series_active = FALSE]

\* GuiApp._series_next_run as a timer's callback.
TkSeriesNextRun ==
    /\ Due("series")
    /\ \E t \in {[tk EXCEPT !.queue = AfterFire(tk.queue)]} :
          IF t._series_done >= t._series_total
          THEN /\ tk' = _series_finish(t)
               /\ UNCHANGED <<ui, seed, menu_tier, state, turn, map, player, enemies, items,
                              inventory, exit, visible, auto_play, gen, last, won,
                              run_items_used, aimed, loop, rng, twin, disk, hot>>
          ELSE TkCommit(NewGameOf(G, seed), auto_play,
                        Last("restart", "gui_series", 0, 0, FALSE, G, "none"),
                        [t EXCEPT !._series_done = @ + 1])

\* The menu's auto series of "runs" runs: start_series, the first
\* _series_next_run inside it, _ensure_auto.
TkStartSeries ==
    /\ tk.on /\ ~tk._series_active /\ tk._series_total = 0 /\ tk.ends = 0
    /\ \E runs \in SeriesRuns :
          \E t \in {[tk EXCEPT !._series_active = TRUE, !._series_total = Max2(1, runs),
                                !._series_done = 1, !._series_wins = 0,
                                !._series_losses = 0]} :
              TkCommit(NewGameOf(G, seed), TRUE,
                       Last("restart", "gui_series", 0, 0, FALSE, G, "none"),
                       _ensure_auto(t, TRUE))

\* The keys the model presses.
MaxKeys == 2

KeyPressed(t) == [t EXCEPT !.keys = @ + 1]

\* on_key, A (ignored while paused).
TkToggleAuto ==
    /\ tk.on /\ state # "paused" /\ tk.keys < MaxKeys
    /\ TkCommit(G, ~auto_play, Last("auto", "gui", 0, 0, FALSE, G, "none"),
                _ensure_auto(KeyPressed(tk), ~auto_play))

\* on_key, P.
TkPause ==
    /\ tk.on /\ tk.keys < MaxKeys
    /\ LET st == IF state = "paused" THEN "playing"
                 ELSE IF state \in {"playing", "game_over"} THEN "paused"
                 ELSE state
       IN  TkCommit([G EXCEPT !.state = st], auto_play,
                    Last("pause", "gui", 0, 0, FALSE, G, "none"),
                    _ensure_auto(KeyPressed(tk), auto_play))

\* The same leaving the timer of _auto_tick pending.
ManualKeepsTimer(t, auto) == t

\* "if g.auto_play: g.auto_play = False; ...; self._ensure_auto()" of the
\* gameplay input, as far as the timers go.
ManualAutoOff(t, auto) == IF auto THEN _ensure_auto(t, FALSE) ELSE t

\* on_key, a direction key or "." (ignored while paused): with autoplay on,
\* "g.auto_play = False" and _ensure_auto; then the move and, for a turn taken
\* on a playing run, the enemies' phase, _ensure_auto and redraw.
TkManual(k) ==
    /\ tk.on /\ state # "paused" /\ tk.keys < MaxKeys
    /\ turn < MaxTurn
    /\ state = "playing" \/ last.free < MaxFree
    /\ \E rs \in Draws(G, k[1], k[2]) :
          \E g1 \in {GuiTurn(G, k[1], k[2], rs)} :
             \E t \in {ManualAutoOff(KeyPressed(tk), auto_play)} :
                TkCommit(g1, FALSE,
                         Last(IF k = <<0, 0>> THEN "wait" ELSE "move", "gui", k[1], k[2],
                              k # <<0, 0>> /\ InvalidMove(G, k[1], k[2]), g1, "none"),
                         IF g1.turn # turn /\ g1.state = "playing"
                         THEN _ensure_auto(RunEnds([t EXCEPT !.inside = AutoTimers(t.queue)], g1),
                                           FALSE)
                         ELSE RunEnds([t EXCEPT !.inside = AutoTimers(t.queue)], g1))

\* GuiApp._auto_tick, the callback of the timer _ensure_auto scheduled.
TkAutoTick ==
    IF ~auto_play THEN TkAutoTickOff
    ELSE IF state = "playing" THEN TkAutoTickPlay
    ELSE TkAutoTickIdle

NextTk ==
    \/ TkAutoTick
    \/ TkRestartTimer
    \/ TkSeriesNextRun
    \/ TkStartSeries
    \/ TkToggleAuto
    \/ TkPause
    \/ \E k \in GameKeys : TkManual(k)

SpecTk == InitTk /\ [][NextTk]_vars

\* Both front ends: the console's Game.run and the GUI with its timers.
InitFront == (Init /\ ui = "console") \/ InitTk

NextFront ==
    \/ ConsoleMenuEnter
    \/ \E k \in GameKeys : ConsoleManual(k)
    \/ ConsolePotion
    \/ ConsolePause
    \/ ConsoleRestart
    \/ ConsoleToggleAuto
    \/ \E k \in GameKeys : ConsoleAutoManual(k)
    \/ ConsoleAutoPause
    \/ ConsoleAutoRestart
    \/ ConsoleAutoTick
    \/ NextTk

SpecFront == InitFront /\ [][NextFront]_vars

C36_OneRestartPerGameEnd ==
    [][(tk.on /\ auto_play /\ ~tk._series_active /\ tk.keys <= 1
          /\ last'.path = "gui_timer" /\ tk'.resets = tk.resets + 1)
          => state \in Ended /\ tk'.resets <= tk'.ends]_vars

\* What does hold: a restart timer is scheduled for a finished run only, so no
\* restart precedes the first game end.
RestartOnlyAfterSomeEnd == tk.on /\ tk.resets > 0 => tk.ends > 0

\* C37: in an auto series of N runs (left to itself, no key pressed) each
\* finished run is counted exactly once:
\* wins + losses <= runs started <= N throughout, and wins + losses = N once
\* the series has finished.
C37_SeriesCountsEachRunOnce ==
    (tk.on /\ tk._series_total > 0 /\ tk.keys = 0)
        => /\ tk._series_wins + tk._series_losses <= tk._series_done
           /\ tk._series_done <= tk._series_total
           /\ (~tk._series_active => tk._series_wins + tk._series_losses = tk._series_total)

\* What does hold: the runs started never exceed N, and the series is over
\* only after N runs were started.
SeriesStartsAtMostN ==
    (tk.on /\ tk._series_total > 0)
        => /\ tk._series_done <= tk._series_total
           /\ (~tk._series_active => tk._series_done = tk._series_total)


\* What does hold of the first restart: the first of the restart timers fires
\* on the finished run it was scheduled for, unless a key came in between.
FirstRestartOnFinishedRun ==
    [][(tk.on /\ tk.keys <= 1 /\ tk.resets = 0 /\ tk'.resets = 1) => state \in Ended]_vars


\* A manual move or wait issued while autoplay is on.
ManualUnderAutoplay == auto_play /\ last'.op \in {"move", "wait"}

\* Autoplay is off, no timer for _auto_tick is pending (GUI) and Game.run has
\* left its autoplay loop (console).
AutoplayStopped ==
    /\ ~auto_play'
    /\ tk'.on => AutoTimers(tk'.queue) = 0
    /\ ui = "console" => loop' = "outer"

---------------------------------------------------------------------------
(* The pending reload reasons: the watcher thread's _watch_loop adding them,
   the main thread's _check_live_reload consuming them *)

\* The reasons in sorted order, the directories the model edits, and how often.
REASONS == <<"assets", "config", "mods", "patches">>

MaxDirEdits == 3

\* list(sorted(S)) of a set of reasons.
SortedList(S) == SelectSeq(REASONS, LAMBDA r : r \in S)

\* The same with no lock at all.
NoLock(h) == TRUE

\* "with _lazy_lock():" can be entered: no thread holds _PENDING_LOCK.
_lazy_lock(h) == ~h.in_main /\ ~h.in_watcher

ReasonsCommit(h) ==
    /\ hot' = h
    /\ UNCHANGED <<ui, auto_play, gen, last, loop, rng, twin, disk, tk>>
    /\ UNCHANGED GameVars

\* The watcher runs, its snapshots are current, nothing is pending.
InitReasons ==
    /\ ui = "gui"
    /\ seed \in HotSeeds
    /\ gen = NoGen
    /\ last = NoLast
    /\ auto_play = FALSE
    /\ loop = "outer"
    /\ rng = NoRng /\ twin = NoTwin /\ disk = NoDisk /\ tk = NoTk
    /\ hot = [pc |-> "reasons", main |-> "idle", in_main |-> FALSE, in_watcher |-> FALSE,
              adding |-> "none", dirty |-> {}, pending |-> {}, reasons |-> <<>>,
              edits |-> 0,
              added |-> [r \in {"assets", "config", "mods", "patches"} |-> 0],
              returned |-> [r \in {"assets", "config", "mods", "patches"} |-> 0],
              during_apply |-> {}, late_returned |-> {}]
    /\ \E g \in {NewGameOf(Blank, seed)} :
           /\ map = g.map
           /\ player = g.player
           /\ enemies = g.enemies
           /\ state = g.state
           /\ items = g.items
           /\ inventory = g.inventory
           /\ exit = g.exit
           /\ visible = g.visible
           /\ menu_tier = g.menu_tier
           /\ turn = g.turn
           /\ won = g.won
           /\ run_items_used = g.run_items_used
           /\ aimed = g.aimed

\* Somebody changes a file under patches, mods, assets or config.
DirEdit ==
    /\ hot.pc = "reasons" /\ hot.edits < MaxDirEdits
    /\ \E r \in {"assets", "config", "mods", "patches"} \ hot.dirty :
          ReasonsCommit([hot EXCEPT !.dirty = @ \cup {r}, !.edits = @ + 1])

\* _watch_loop: _detect_changes found the directory of r changed; the thread
\* enters "with _lazy_lock()".
WatcherEnter ==
    /\ hot.pc = "reasons" /\ hot.adding = "none" /\ _lazy_lock(hot)
    /\ \E r \in hot.dirty :
          ReasonsCommit([hot EXCEPT !.in_watcher = TRUE, !.adding = r])

\* "_PENDING_REASONS.add(r)", the lock released, "_SNAP_PREV[r] = cur".
WatcherAdd ==
    /\ hot.pc = "reasons" /\ hot.adding # "none"
    /\ ReasonsCommit([hot EXCEPT !.pending = @ \cup {hot.adding},
                                 !.added[hot.adding] = @ + (IF hot.adding \in hot.pending THEN 0 ELSE 1),
                                 !.during_apply = IF hot.main = "apply" THEN @ \cup {hot.adding} ELSE @,
                                 !.dirty = @ \ {hot.adding},
                                 !.in_watcher = FALSE, !.adding = "none"])

\* _check_live_reload: has_pending_reload() read the set without the lock and
\* found a reason, the debounce and the apply interval being over.
LiveCheckPending ==
    /\ hot.pc = "reasons" /\ hot.main = "idle" /\ hot.pending # {}
    /\ ReasonsCommit([hot EXCEPT !.main = "consume"])

\* consume_reload_reasons: "with _lazy_lock():" entered.
ConsumeEnter ==
    /\ hot.pc = "reasons" /\ hot.main = "consume" /\ _lazy_lock(hot)
    /\ ReasonsCommit([hot EXCEPT !.in_main = TRUE, !.main = "locked"])

\* "reasons = list(sorted(_PENDING_REASONS))".
ConsumeRead ==
    /\ hot.pc = "reasons" /\ hot.main = "locked"
    /\ ReasonsCommit([hot EXCEPT !.reasons = SortedList(hot.pending), !.main = "read"])

\* "_PENDING_REASONS.clear()", the lock released, "return reasons".
ConsumeClear ==
    /\ hot.pc = "reasons" /\ hot.main = "read"
    /\ ReasonsCommit([hot EXCEPT
           !.pending = {}, !.in_main = FALSE, !.main = "apply",
           !.during_apply = {},
           !.late_returned = {r \in hot.during_apply :
                                 \E i \in DOMAIN hot.reasons : hot.reasons[i] = r},
           !.returned = [r \in DOMAIN @ |->
                            @[r] + Cardinality({i \in DOMAIN hot.reasons : hot.reasons[i] = r})]])

\* reload_all() and the rest of _check_live_reload.
ReloadApplied ==
    /\ hot.pc = "reasons" /\ hot.main = "apply"
    /\ ReasonsCommit([hot EXCEPT !.main = "idle", !.reasons = <<>>])

NextReasons ==
    \/ DirEdit
    \/ WatcherEnter
    \/ WatcherAdd
    \/ LiveCheckPending
    \/ ConsumeEnter
    \/ ConsumeRead
    \/ ConsumeClear
    \/ ReloadApplied

SpecReasons == InitReasons /\ [][NextReasons]_vars

\* C39: under any interleaving of the watcher and the main thread no pending
\* reload reason is lost: every reason the watcher added is still pending or
\* was returned by exactly one consume_reload_reasons call, reasons added while
\* a reload is being applied included.
C39_NoReloadReasonLost ==
    hot.pc = "reasons"
        => \A r \in DOMAIN hot.added :
              hot.added[r] = hot.returned[r] + (IF r \in hot.pending THEN 1 ELSE 0)

\* A reason added while a reload was being applied has been returned by the
\* next consume_reload_reasons call.
C39_Witness ==
    /\ hot.pc = "reasons" /\ hot.main = "apply"
    /\ \E r \in hot.late_returned : hot.returned[r] = 2 /\ hot.added[r] = 2

====
